---------------------------- MODULE Spec2Model ----------------------------
(***************************************************************************)
(* Model of the LLM code deployer backend (main.py, deploy_repo.py).       *)
(*                                                                         *)
(* The specifications of this module share its variables.                  *)
(*   Spec        : the rounds.  Every accepted /build trigger is a         *)
(*                 background task (a "proc") that runs _process_request   *)
(*                 concurrently with the others; they share the state      *)
(*                 document state.json and the lock STATE_LOCK.            *)
(*   SpecPublish : one call of create_and_push_repo or push_existing_repo  *)
(*                 of deploy_repo.py, statement by statement, against a    *)
(*                 git / GitHub environment that answers every command     *)
(*                 with any result it can produce, and the repository on   *)
(*                 GitHub the calls publish to.                            *)
(*   FairSpec, SpecRecorded : the rounds of one task, under a fair         *)
(*                 scheduler and after a recorded round 1.                 *)
(*   SpecNotify, SpecPoll, SpecDir, SpecNaming, SpecCreds : one helper or  *)
(*                 one round, statement by statement.                      *)
(***************************************************************************)
EXTENDS Integers, Sequences, FiniteSets, TLC

(***************************************************************************)
(* Bounds of the model.                                                    *)
(***************************************************************************)
\* number of /build triggers (background tasks) in one behaviour
NumProcs == 2

Procs == 1..NumProcs

(***************************************************************************)
(* Text.  A Python str is a sequence of one-character strings.             *)
(***************************************************************************)
UpperSeq ==
  <<"A","B","C","D","E","F","G","H","I","J","K","L","M",
    "N","O","P","Q","R","S","T","U","V","W","X","Y","Z">>

LowerSeq ==
  <<"a","b","c","d","e","f","g","h","i","j","k","l","m",
    "n","o","p","q","r","s","t","u","v","w","x","y","z">>

Digits == {"0","1","2","3","4","5","6","7","8","9"}

\* str.lower() on one character
LowerChar(c) ==
  IF \E i \in 1..26 : UpperSeq[i] = c
    THEN LowerSeq[CHOOSE i \in 1..26 : UpperSeq[i] = c]
    ELSE c

\* str.lower()
Lower(s) == [i \in 1..Len(s) |-> LowerChar(s[i])]

\* the character class [a-z0-9] of the regular expressions of _slugify
IsSlugChar(c) == (\E i \in 1..26 : LowerSeq[i] = c) \/ c \in Digits

\* re.sub(r"[^a-z0-9]+", "-", text): every maximal run of characters outside
\* the class becomes one hyphen
RECURSIVE SubRuns(_, _)
SubRuns(s, inRun) ==
  IF s = <<>> THEN <<>>
  ELSE IF IsSlugChar(Head(s)) THEN <<Head(s)>> \o SubRuns(Tail(s), FALSE)
  ELSE IF inRun THEN SubRuns(Tail(s), TRUE)
  ELSE <<"-">> \o SubRuns(Tail(s), TRUE)

\* re.sub(r"-+", "-", text)
RECURSIVE SubHyphens(_, _)
SubHyphens(s, inRun) ==
  IF s = <<>> THEN <<>>
  ELSE IF Head(s) # "-" THEN <<Head(s)>> \o SubHyphens(Tail(s), FALSE)
  ELSE IF inRun THEN SubHyphens(Tail(s), TRUE)
  ELSE <<"-">> \o SubHyphens(Tail(s), TRUE)

\* str.strip("-")
RECURSIVE StripLeft(_)
StripLeft(s) ==
  IF s # <<>> /\ Head(s) = "-" THEN StripLeft(Tail(s)) ELSE s

RECURSIVE StripRight(_)
StripRight(s) ==
  IF s # <<>> /\ s[Len(s)] = "-" THEN StripRight(SubSeq(s, 1, Len(s) - 1)) ELSE s

Strip(s) == StripRight(StripLeft(s))

Project == <<"p","r","o","j","e","c","t">>

\* variant of Slugify: the hyphens at the ends are kept
SlugifyUnstripped(text) ==
  LET t1 == Lower(text)
      t2 == SubRuns(t1, FALSE)
      t3 == SubHyphens(t2, FALSE)
  IN IF t3 = <<>> THEN Project ELSE t3

\* _slugify
Slugify(text) ==
  LET t1 == Lower(text)
      t2 == SubRuns(t1, FALSE)
      t3 == Strip(SubHyphens(t2, FALSE))
  IN IF t3 = <<>> THEN Project ELSE t3

\* nonce[:6]
Prefix6(s) == SubSeq(s, 1, IF Len(s) < 6 THEN Len(s) ELSE 6)

\* f"{task_slug}-{req.nonce[:6].lower()}" of _process_round_one
DeriveRepoName(task, nonce) == Slugify(task) \o <<"-">> \o Lower(Prefix6(nonce))


(***************************************************************************)
(* Requests.  BuildRequest of main.py; the fields the rounds branch on.    *)
(***************************************************************************)
TaskNames ==
  { <<"T","o"," ","D","o">>,
    <<"b","l","o","g","!">> }

Nonces ==
  { <<"a","b","c","1","2","3","x","y","z">>,
    <<"Q","7","k","9","Z","0","w">> }

\* round: int = Field(1, ge=1); 3 stands for every round the code does not support
Rounds == {1, 2, 3}

StudentSecret == "s3cret"

Secrets == {StudentSecret, "wrong"}

Requests == [task : TaskNames, nonce : Nonces, round : Rounds]

NoReq == [task |-> <<>>, nonce |-> <<>>, round |-> 0]

\* the keys of state["tasks"]
Slugs == {Slugify(t) : t \in TaskNames}

\* a value of state["tasks"]; NoRecord stands for an absent key
NoRecord == [repo_name |-> <<>>, nonce |-> <<>>, pages_ready |-> FALSE]

\* _load_state when state.json does not exist: {"tasks": {}}
\* no call of the round has been given a repository name yet
NoTarget == [workdir |-> <<>>, clone |-> <<>>, push |-> <<>>]

EmptyDoc == [s \in Slugs |-> NoRecord]

(***************************************************************************)
(* git and GitHub as the publishing functions of deploy_repo.py see them.  *)
(***************************************************************************)
\* what the code looks for in the stderr of `git push`: "Permission to" and
\* "denied" as written, "non-fast-forward" and "fetch first" in any case
Markers == {"Permission to", "denied", "non-fast-forward", "fetch first"}

\* subprocess.CompletedProcess of a `git push`: returncode (1: any non-zero
\* status) and the markers its stderr contains
PushResults ==
  {[rc |-> 0, stderr |-> {}]} \cup {[rc |-> 1, stderr |-> m] : m \in SUBSET Markers}

\* no result of a push: the exception, if any, reports none
NoResult == [rc |-> 0, stderr |-> {}]

\* the result of `git commit`: returncode, and whether its output says
\* "nothing to commit"
CommitResults ==
  { [rc |-> 0, nothing |-> FALSE],
    [rc |-> 1, nothing |-> TRUE],
    [rc |-> 1, nothing |-> FALSE] }

\* the argument tuples `git push` is called with
PushArgs ==
  { <<"push", "-u", "origin", "main">>,
    <<"push", "origin", "main">>,
    <<"push", "-f", "origin", "main">>,
    <<"push", "--force", "-u", "origin", "main">> }

Contains(args, a) == \E i \in 1..Len(args) : args[i] = a

\* the last _commit_if_needed call: the return code of `git add`, whether
\* `git commit` was run and its result, and what the call came to
NoGate ==
  [ add_rc |-> 0, ran |-> FALSE, commit |-> [rc |-> 0, nothing |-> FALSE],
    outcome |-> "none" ]

\* the frame of one call: which function, where it is, its locals, the git
\* commits and pushes it has run, the answers of create_repo and get_repo,
\* the repository object it got ("created" or "reused"), the commits of the
\* local branch main that the remote may point to, the local HEAD (0: no
\* commit yet), the commit_sha it returns, what the round then stores and
\* posts of it, and how it ended
NoCall ==
  [ fn |-> "none", at |-> "none", site |-> "none", gate |-> NoGate,
    args |-> <<>>, force_on_conflict |-> FALSE,
    workflow_committed |-> FALSE, content_committed |-> FALSE,
    changes_committed |-> FALSE,
    commits |-> <<>>, pushes |-> <<>>,
    api |-> <<>>, repo |-> "none", history |-> {}, head |-> 0, commit_sha |-> 0,
    last_commit_sha |-> 0, payload_commit_sha |-> 0,
    raised |-> "none", raised_at |-> "none", reported |-> NoResult ]

\* the repository on GitHub: whether it exists, the commit its branch main
\* points to (0: the branch does not exist) and how many commits have been
\* created for it so far, in whatever working directory; commit k is the
\* k-th of them
NoRemote == [exists |-> FALSE, main |-> 0, made |-> 0]

\* the frame of one _post_evaluation call: where it is, the loop variables
\* `attempt` and `backoff`, the answers its posts got, the delays it slept
\* and what it logged last
NoNote ==
  [ at |-> "none", attempt |-> 0, backoff |-> 0,
    posts |-> <<>>, sleeps |-> <<>>, logged |-> "none" ]

\* the frame of one _wait_for_pages call: where it is, the clock (seconds
\* since the call), the deadline, how many requests it has issued, when the
\* last one was issued and what it answered, whether a request raised,
\* which request answered 200 first, the time slept since the last request
\* and before it, and the value returned
NoPoll ==
  [ at |-> "none", now |-> 0, deadline |-> 0, polls |-> 0, issued_at |-> 0,
    last |-> -1, saw_error |-> FALSE, first_ok |-> 0,
    slept |-> 0, slept_before |-> 0, result |-> "none" ]

\* the working directory TEMP_BASE / repo_name of one repository name and
\* the remote repository of that name, over successive rounds: where the
\* round under way is, which round it is, how many rounds were started,
\* whether the directory exists and the files in it, the same for the
\* remote, the files the round found on entry and the files it cloned.  A
\* file is <<name, n>>: the content the n-th round wrote under that name.
NoDir ==
  [ at |-> "idle", round |-> 0, rounds |-> 0,
    exists |-> FALSE, files |-> {},
    remote_exists |-> FALSE, remote |-> {},
    before |-> {}, cloned |-> {} ]

\* the derivations of one round-1 repository name: the task and the nonce
\* of the request, task_slug, and the repo_name of each derivation
NoNaming ==
  [ at |-> "none", task |-> <<>>, nonce |-> <<>>, slug |-> <<>>, names |-> <<>> ]

\* what os.getenv finds for a variable: nothing, the empty string or a value
EnvValues == {"unset", "empty", "set"}

\* `not value`, as the checks of the credentials test it
Missing(value) == value # "set"

\* one round, statement by statement, in a process whose environment may
\* lack GITHUB_USERNAME or GITHUB_TOKEN: where the round is, which round it
\* is, what each variable holds, the external effects so far, the
\* exception that ended it and the statement that raised it
NoRun ==
  [ at |-> "none", round |-> 0, username |-> "set", token |-> "set",
    did |-> {}, raised |-> "none", raised_at |-> "none" ]

VARIABLES
  pc,          \* pc[p]: where background task p is in _process_request
  req,         \* req[p]: the BuildRequest of trigger p
  task_state,  \* task_state[p]: round 2, the entry read at the start
  repo_name,   \* repo_name[p]: the local repo_name of the round
  loaded,      \* loaded[p]: the local `state` inside `with STATE_LOCK`
  did,         \* did[p]: the external effects task p has performed so far
  target,      \* target[p]: the repository name each of them was aimed at
  resp,        \* resp[p]: what /build answered the request of task p
  raised_in,   \* raised_in[p]: the stage whose exception ended the round
  store,       \* the "tasks" mapping of state.json
  lock,        \* STATE_LOCK: 0 when free, else the task holding it
  call,        \* SpecPublish: the frame of the publishing call under way
  note,        \* SpecNotify: the frame of the _post_evaluation call under way
  poll,        \* SpecPoll: the frame of the _wait_for_pages call under way
  wd,          \* SpecDir: the working directory of one repository name
  naming,      \* SpecNaming: the derivations of one repository name
  run,         \* SpecCreds: one round and the credentials it finds
  remote       \* SpecPublish: the GitHub repository the calls publish to

roundVars ==
  <<pc, req, task_state, repo_name, loaded, did, target, resp, raised_in, store, lock>>

\* the frames of the specifications other than Spec and SpecPublish
otherFrames == <<note, poll, wd, naming, run>>

vars == <<pc, req, task_state, repo_name, loaded, did, target, resp, raised_in, store,
          lock, call, note, poll, wd, naming, run, remote>>

Init ==
  /\ pc = [p \in Procs |-> "idle"]
  /\ req = [p \in Procs |-> NoReq]
  /\ task_state = [p \in Procs |-> NoRecord]
  /\ repo_name = [p \in Procs |-> <<>>]
  /\ loaded = [p \in Procs |-> EmptyDoc]
  /\ did = [p \in Procs |-> {}]
  /\ target = [p \in Procs |-> NoTarget]
  /\ resp = [p \in Procs |-> "none"]
  /\ raised_in = [p \in Procs |-> "none"]
  /\ store = EmptyDoc
  /\ lock = 0
  /\ call = NoCall
  /\ note = NoNote
  /\ poll = NoPoll
  /\ wd = NoDir
  /\ naming = NoNaming
  /\ run = NoRun
  /\ remote = NoRemote

\* _slugify and the repo_name of round 1, tabulated over the requests
SlugTable == [t \in TaskNames \cup {<<>>} |-> Slugify(t)]

RepoNameTable ==
  [t \in TaskNames, n \in Nonces |-> DeriveRepoName(t, n)]

\* task_slug = _slugify(req.task)
TaskSlug(p) == SlugTable[req[p].task]

\* variant of LockFree: STATE_LOCK is not honoured
LockFreeAlways == TRUE

\* STATE_LOCK can be taken
LockFree == lock = 0

\* everything a step of task p leaves alone besides pc and did
Locals == <<req, task_state, repo_name, loaded, target, resp>>
Shared == <<store, lock, call, remote, otherFrames>>

\* raise: the exception reaches `except Exception` of _process_request
Fail(p) ==
  /\ pc' = [pc EXCEPT ![p] = "FAILED"]
  /\ raised_in' = [raised_in EXCEPT ![p] = pc[p]]

Goto(p, where) ==
  /\ pc' = [pc EXCEPT ![p] = where]
  /\ UNCHANGED raised_in

Do(p, effects) == did' = [did EXCEPT ![p] = @ \cup effects]

\* the repository names the calls of task p are given: `workdir` is the
\* directory TEMP_BASE / name, `clone` the remote `git clone` reads, `push`
\* the remote `git push` writes
Aim(p, workdir, clone, push) ==
  target' = [target EXCEPT ![p] =
               [workdir |-> IF workdir = <<>> THEN @.workdir ELSE workdir,
                clone   |-> IF clone = <<>> THEN @.clone ELSE clone,
                push    |-> IF push = <<>> THEN @.push ELSE push]]

(***************************************************************************)
(* /build and _process_request                                             *)
(***************************************************************************)
\* the answer of /build
Answer(p, status) == resp' = [resp EXCEPT ![p] = status]

\* variant of Build: the task is added before the secret is compared
BuildSchedulingFirst(p) ==
  /\ pc[p] = "idle"
  /\ IF p = 1 THEN TRUE ELSE pc[p - 1] # "idle"
  /\ \E secret \in Secrets :
       /\ Goto(p, "scheduled")
       /\ \E r \in Requests : req' = [req EXCEPT ![p] = r]
       /\ Answer(p, IF secret # StudentSecret THEN "403" ELSE "accepted")
  /\ UNCHANGED <<task_state, repo_name, loaded, did, target, store, lock, call, remote, otherFrames>>

\* build, for a request body out of `requests`: a wrong secret is answered
\* 403 and nothing is scheduled; else
\* background_tasks.add_task(_process_request, req.dict()) and the answer
\* {"status": "accepted", ...}
Submit(p, requests) ==
  /\ pc[p] = "idle"
  /\ IF p = 1 THEN TRUE ELSE pc[p - 1] # "idle"
  /\ \E secret \in Secrets :
       IF secret # StudentSecret
         THEN /\ Goto(p, "rejected")
              /\ Answer(p, "403")
              /\ UNCHANGED req
         ELSE /\ Goto(p, "scheduled")
              /\ Answer(p, "accepted")
              /\ \E r \in requests : req' = [req EXCEPT ![p] = r]
  /\ UNCHANGED <<task_state, repo_name, loaded, did, target, store, lock, call, remote, otherFrames>>

\* build
Build(p) == Submit(p, Requests)

\* variant of Unsupported: a round above 2 is run as a round 1
UnsupportedAsRoundOne(p) ==
  /\ pc[p] = "scheduled"
  /\ req[p].round \notin {1, 2}
  /\ repo_name' = [repo_name EXCEPT ![p] = RepoNameTable[req[p].task, req[p].nonce]]
  /\ Aim(p, RepoNameTable[req[p].task, req[p].nonce], <<>>, <<>>)
  /\ \E ok \in BOOLEAN :
       IF ok THEN Goto(p, "GENERATING") /\ Do(p, {"rmtree", "mkdir"})
             ELSE Fail(p) /\ Do(p, {"rmtree"})
  /\ UNCHANGED <<req, resp, task_state, loaded, Shared>>

\* _process_request, the else branch: "Unsupported round"
Unsupported(p) ==
  /\ pc[p] = "scheduled"
  /\ req[p].round \notin {1, 2}
  /\ Goto(p, "DONE")
  /\ UNCHANGED <<Locals, did, Shared>>

(***************************************************************************)
(* Round 1 and round 2, stage by stage.  pc[p] names the stage task p is   *)
(* about to run.  Each external call answers with any result it can give.  *)
(***************************************************************************)
\* _process_round_one up to _prepare_local_dir(repo_name, create=True);
\* _safe_rmtree or mkdir may raise
R1Prepare(p) ==
  /\ pc[p] = "scheduled"
  /\ req[p].round = 1
  /\ repo_name' = [repo_name EXCEPT ![p] = RepoNameTable[req[p].task, req[p].nonce]]
  /\ Aim(p, RepoNameTable[req[p].task, req[p].nonce], <<>>, <<>>)
  /\ \E ok \in BOOLEAN :
       IF ok THEN Goto(p, "GENERATING") /\ Do(p, {"rmtree", "mkdir"})
             ELSE Fail(p) /\ Do(p, {"rmtree"})
  /\ UNCHANGED <<req, resp, task_state, loaded, Shared>>

\* variant of R2Lookup: the working directory is prepared before the entry
\* is checked
R2LookupPreparingFirst(p) ==
  /\ pc[p] = "scheduled"
  /\ req[p].round = 2
  /\ LockFree
  /\ task_state' = [task_state EXCEPT ![p] = store[TaskSlug(p)]]
  /\ repo_name' = [repo_name EXCEPT ![p] = store[TaskSlug(p)].repo_name]
  /\ Do(p, {"rmtree"})
  /\ IF store[TaskSlug(p)] = NoRecord THEN Fail(p) ELSE Goto(p, "CLONING")
  /\ UNCHANGED <<req, resp, loaded, target, Shared>>

\* _process_round_two: the read of the task's entry under STATE_LOCK and
\* `if not task_state: raise`
R2Lookup(p) ==
  /\ pc[p] = "scheduled"
  /\ req[p].round = 2
  /\ LockFree
  /\ task_state' = [task_state EXCEPT ![p] = store[TaskSlug(p)]]
  /\ IF store[TaskSlug(p)] = NoRecord
       THEN Fail(p) /\ UNCHANGED repo_name
       ELSE /\ Goto(p, "CLONING")
            /\ repo_name' = [repo_name EXCEPT ![p] = store[TaskSlug(p)].repo_name]
  /\ UNCHANGED <<req, resp, loaded, did, target, Shared>>

\* variant of R2Prepare: the directory and the clone source are named after
\* the request's own task and nonce
R2PrepareRederiving(p) ==
  /\ pc[p] = "CLONING"
  /\ LET name == RepoNameTable[req[p].task, req[p].nonce] IN
     \E out \in {"rmtree raised", "not configured", "clone failed", "cloned"} :
       CASE out = "rmtree raised"  ->
              Fail(p) /\ Do(p, {"rmtree"}) /\ Aim(p, name, <<>>, <<>>)
         [] out = "not configured" ->
              Fail(p) /\ Do(p, {"rmtree"}) /\ Aim(p, name, <<>>, <<>>)
         [] out = "clone failed"   ->
              Fail(p) /\ Do(p, {"rmtree", "clone"}) /\ Aim(p, name, name, <<>>)
         [] out = "cloned"         ->
              /\ Goto(p, "GENERATING")
              /\ Do(p, {"rmtree", "clone"})
              /\ Aim(p, name, name, <<>>)
  /\ UNCHANGED <<req, resp, task_state, repo_name, loaded, Shared>>

\* local_dir = _prepare_local_dir(repo_name, create=False) and
\* _clone_repo(repo_name, local_dir); _clone_repo raises before `git clone`
\* when the username or the token is not configured
R2Prepare(p) ==
  /\ pc[p] = "CLONING"
  /\ LET name == repo_name[p] IN
     \E out \in {"rmtree raised", "not configured", "clone failed", "cloned"} :
       CASE out = "rmtree raised"  ->
              Fail(p) /\ Do(p, {"rmtree"}) /\ Aim(p, name, <<>>, <<>>)
         [] out = "not configured" ->
              Fail(p) /\ Do(p, {"rmtree"}) /\ Aim(p, name, <<>>, <<>>)
         [] out = "clone failed"   ->
              Fail(p) /\ Do(p, {"rmtree", "clone"}) /\ Aim(p, name, name, <<>>)
         [] out = "cloned"         ->
              /\ Goto(p, "GENERATING")
              /\ Do(p, {"rmtree", "clone"})
              /\ Aim(p, name, name, <<>>)
  /\ UNCHANGED <<req, resp, task_state, repo_name, loaded, Shared>>

\* variant of Generate: the failure is raised after the repository was
\* pushed
GeneratePublishingFirst(p) ==
  /\ pc[p] = "GENERATING"
  /\ \E generated \in BOOLEAN :
       IF generated
         THEN Do(p, {"llm"}) /\ Goto(p, "PUBLISHING")
         ELSE Do(p, {"llm", "git", "commit", "push"}) /\ Fail(p)
  /\ UNCHANGED <<Locals, Shared>>

\* generate_simple_static_app and `if not generated: raise`
Generate(p) ==
  /\ pc[p] = "GENERATING"
  /\ Do(p, {"llm"})
  /\ \E generated \in BOOLEAN :
       IF generated THEN Goto(p, "PUBLISHING") ELSE Fail(p)
  /\ UNCHANGED <<Locals, Shared>>

\* the external effects of create_and_push_repo (round 1) and of
\* push_existing_repo (round 2) up to `git rev-parse HEAD`, in program order
PublishEffects(round) ==
  IF round = 1
    THEN <<"github_api", "repo_create", "git", "commit", "push">>
    ELSE <<"git", "commit", "push">>

FirstEffects(seq, k) == {seq[i] : i \in 1..k}

\* _predict_repo_urls, the _write_* helpers and the publishing part of
\* create_and_push_repo / push_existing_repo.  It raises at any of its calls
\* (k effects performed so far), or returns; round 1 returns only after a
\* push, round 2 also when nothing was committed and so nothing pushed.
Publish(p) ==
  /\ pc[p] = "PUBLISHING"
  /\ LET E == PublishEffects(req[p].round) IN
       \E k \in 0..Len(E), raised \in BOOLEAN :
         /\ Do(p, FirstEffects(E, k))
         /\ Aim(p, <<>>, <<>>,
                IF "push" \in FirstEffects(E, k) THEN repo_name[p] ELSE <<>>)
         /\ IF raised
              THEN Fail(p)
              ELSE /\ k = Len(E) \/ (req[p].round = 2 /\ k = Len(E) - 1)
                   /\ Goto(p, "ACTIVATING")
  /\ UNCHANGED <<req, resp, task_state, repo_name, loaded, Shared>>

\* the answer of requests.post: an HTTP status, or TransportError when
\* requests raises (connection error, timeout=15 exceeded)
TransportError == 0

HttpAnswers == {TransportError, 201, 202, 204, 409, 500}

\* _ensure_pages_site: what becomes of the call
EnsurePagesSite(answer) ==
  IF answer = TransportError THEN "raise"
  ELSE IF answer \in {201, 204} THEN "info: enabled"
  ELSE IF answer = 409 THEN "info: already enabled"
  ELSE "warning"

\* _trigger_pages_build: what becomes of the call
TriggerPagesBuild(answer) ==
  IF answer = TransportError THEN "raise"
  ELSE IF answer \notin {201, 202, 204} THEN "warning"
  ELSE "info: triggered"

\* _ensure_pages_site then _trigger_pages_build, the tail of
\* create_and_push_repo and of push_existing_repo
Activate(p) ==
  /\ pc[p] = "ACTIVATING"
  /\ \E ensured \in {EnsurePagesSite(a) : a \in HttpAnswers} :
       IF ensured = "raise"
         THEN Fail(p) /\ Do(p, {"pages_api"})
         ELSE \E triggered \in {TriggerPagesBuild(a) : a \in HttpAnswers} :
                IF triggered = "raise"
                  THEN Fail(p) /\ Do(p, {"pages_api", "pages_build"})
                  ELSE Goto(p, "VERIFYING") /\ Do(p, {"pages_api", "pages_build"})
  /\ UNCHANGED <<Locals, Shared>>

\* variant of Verify: the evaluation is posted before pages_ready is checked
VerifyNotifyingFirst(p) ==
  /\ pc[p] = "VERIFYING"
  /\ Do(p, {"poll", "notify"})
  /\ \E pages_ready \in BOOLEAN :
       IF pages_ready THEN Goto(p, "RECORDING") ELSE Fail(p)
  /\ UNCHANGED <<Locals, Shared>>

\* pages_ready = _wait_for_pages(...); `if not pages_ready: raise`
Verify(p) ==
  /\ pc[p] = "VERIFYING"
  /\ Do(p, {"poll"})
  /\ \E pages_ready \in BOOLEAN :
       IF pages_ready THEN Goto(p, "RECORDING") ELSE Fail(p)
  /\ UNCHANGED <<Locals, Shared>>

\* `with STATE_LOCK: state = _load_state()`
RecordLoad(p) ==
  /\ pc[p] = "RECORDING"
  /\ LockFree
  /\ lock' = p
  /\ loaded' = [loaded EXCEPT ![p] = store]
  /\ Goto(p, "SAVING")
  /\ UNCHANGED <<req, resp, task_state, repo_name, did, target, store, call, remote, otherFrames>>

\* the entry _process_round_one writes
RoundOneEntry(p) ==
  [repo_name |-> repo_name[p], nonce |-> req[p].nonce, pages_ready |-> TRUE]

\* variant of RoundTwoEntry: the name is derived again from the request
RoundTwoEntryRederived(p) ==
  [task_state[p] EXCEPT !.pages_ready = TRUE,
                        !.repo_name = RepoNameTable[req[p].task, req[p].nonce]]

\* the entry _process_round_two writes: {**task_state, ...}
RoundTwoEntry(p) ==
  [task_state[p] EXCEPT !.pages_ready = TRUE]

\* variant of RecordSave: STATE_LOCK is not released
RecordSaveHoldingLock(p) ==
  /\ pc[p] = "SAVING"
  /\ store' = [loaded[p] EXCEPT ![TaskSlug(p)] =
                 IF req[p].round = 1 THEN RoundOneEntry(p) ELSE RoundTwoEntry(p)]
  /\ loaded' = [loaded EXCEPT ![p] = EmptyDoc]
  /\ Do(p, {"record"})
  /\ Goto(p, "NOTIFYING")
  /\ UNCHANGED <<req, resp, task_state, repo_name, target, lock, call, remote, otherFrames>>

\* state.setdefault("tasks", {})[task_slug] = {...}; _save_state(state);
\* leaving the `with` block releases STATE_LOCK and the local `state` is dead
RecordSave(p) ==
  /\ pc[p] = "SAVING"
  /\ store' = [loaded[p] EXCEPT ![TaskSlug(p)] =
                 IF req[p].round = 1 THEN RoundOneEntry(p) ELSE RoundTwoEntry(p)]
  /\ lock' = 0
  /\ loaded' = [loaded EXCEPT ![p] = EmptyDoc]
  /\ Do(p, {"record"})
  /\ Goto(p, "NOTIFYING")
  /\ UNCHANGED <<req, resp, task_state, repo_name, target, call, remote, otherFrames>>

\* variant of Notify: a notification that was not delivered raises
NotifyRaising(p) ==
  /\ pc[p] = "NOTIFYING"
  /\ \E delivered \in BOOLEAN :
       IF delivered
         THEN Do(p, {"notify", "delivered"}) /\ Goto(p, "DONE")
         ELSE Do(p, {"notify"}) /\ Fail(p)
  /\ UNCHANGED <<Locals, Shared>>

\* _post_evaluation(req, round, repo_info), the last statement of the round:
\* it posts at least once and returns, having been answered 200 by some
\* post (delivered) or by none
Notify(p) ==
  /\ pc[p] = "NOTIFYING"
  /\ \E delivered \in BOOLEAN :
       Do(p, {"notify"} \cup IF delivered THEN {"delivered"} ELSE {})
  /\ Goto(p, "DONE")
  /\ UNCHANGED <<Locals, Shared>>

\* the steps of the round of task p, run by a worker thread
Round(p) ==
  \/ Unsupported(p)
  \/ R1Prepare(p)
  \/ R2Lookup(p)
  \/ R2Prepare(p)
  \/ Generate(p)
  \/ Publish(p)
  \/ Activate(p)
  \/ Verify(p)
  \/ RecordLoad(p)
  \/ RecordSave(p)
  \/ Notify(p)

Next ==
  \E p \in Procs :
    \/ Build(p)
    \/ Round(p)

Spec == Init /\ [][Next]_vars

\* the requests of one task: its round 1 and the rounds that follow it
OneTaskRequests ==
  {r \in Requests : /\ r.task = <<"T","o"," ","D","o">>
                    /\ r.nonce = <<"Q","7","k","9","Z","0","w">>}

\* build, for requests that all name the same task
BuildOneTask(p) == Submit(p, OneTaskRequests)

NextOneTask ==
  \E p \in Procs :
    \/ BuildOneTask(p)
    \/ Round(p)

\* the rounds of one task under a scheduler that lets every worker thread
\* run: a thread whose next statement can be executed eventually executes it
FairSpec ==
  /\ Init
  /\ [][NextOneTask]_vars
  /\ \A p \in Procs : WF_vars(Round(p))

\* the requests that name the task "To Do", with either nonce
SameTaskRequests == {r \in Requests : r.task = <<"T","o"," ","D","o">>}

\* build, for requests that all name the task "To Do"
BuildSameTask(p) == Submit(p, SameTaskRequests)

\* the entry a finished round 1 of "To Do" with nonce "abc123xyz" recorded
EarlierEntry ==
  [ repo_name |-> RepoNameTable[<<"T","o"," ","D","o">>,
                                <<"a","b","c","1","2","3","x","y","z">>],
    nonce |-> <<"a","b","c","1","2","3","x","y","z">>,
    pages_ready |-> TRUE ]

\* the server once that round 1 has ended and its task is gone: state.json
\* holds what it recorded and nothing else is left of it
InitRecorded ==
  /\ pc = [p \in Procs |-> "idle"]
  /\ req = [p \in Procs |-> NoReq]
  /\ task_state = [p \in Procs |-> NoRecord]
  /\ repo_name = [p \in Procs |-> <<>>]
  /\ loaded = [p \in Procs |-> EmptyDoc]
  /\ did = [p \in Procs |-> {}]
  /\ target = [p \in Procs |-> NoTarget]
  /\ resp = [p \in Procs |-> "none"]
  /\ raised_in = [p \in Procs |-> "none"]
  /\ store = [EmptyDoc EXCEPT ![SlugTable[<<"T","o"," ","D","o">>]] = EarlierEntry]
  /\ lock = 0
  /\ call = NoCall
  /\ note = NoNote
  /\ poll = NoPoll
  /\ wd = NoDir
  /\ naming = NoNaming
  /\ run = NoRun
  /\ remote = NoRemote

NextSameTask ==
  \E p \in Procs :
    \/ BuildSameTask(p)
    \/ Round(p)

\* the rounds that follow a recorded round 1 of the same task
SpecRecorded == InitRecorded /\ [][NextSameTask]_vars

(***************************************************************************)
(* deploy_repo.py: create_and_push_repo, push_existing_repo and their      *)
(* helpers, one statement per step.  call is the frame of the call.        *)
(***************************************************************************)
\* variant of HandlePushError: one of the two substrings is enough
HandlePushErrorEither(result) ==
  IF "Permission to" \in result.stderr \/ "denied" \in result.stderr
    THEN "PermissionError"
    ELSE "RuntimeError"

\* _handle_push_error: the exception it raises for the result of a push
HandlePushError(result) ==
  IF "Permission to" \in result.stderr /\ "denied" \in result.stderr
    THEN "PermissionError"
    ELSE "RuntimeError"

\* _push_with_retry: the condition under which the push is forced
ForceRetry(force_on_conflict, result) ==
  force_on_conflict
    /\ ("non-fast-forward" \in result.stderr \/ "fetch first" \in result.stderr)

\* variant of ForceArgs: "-f" is inserted whatever the arguments hold
ForceArgsAlways(args) ==
  <<args[1], "-f">> \o Tail(args)

\* _push_with_retry: force_args, with "-f" inserted at index 1 unless a force
\* flag is there already
ForceArgs(args) ==
  IF ~Contains(args, "-f") /\ ~Contains(args, "--force")
    THEN <<args[1], "-f">> \o Tail(args)
    ELSE args

\* variant of CommitIfNeeded: every failure of `git commit` is taken for
\* "nothing to commit"
CommitIfNeededLenient(add_rc, commit) ==
  IF add_rc # 0 THEN "raise"
  ELSE IF commit.rc = 0 THEN "True"
  ELSE "False"

\* _commit_if_needed: "True", "False" or "raise" for the results of
\* `git add` and `git commit`
CommitIfNeeded(add_rc, commit) ==
  IF add_rc # 0 THEN "raise"
  ELSE IF commit.rc = 0 THEN "True"
  ELSE IF commit.nothing THEN "False"
  ELSE "raise"

\* one _commit_if_needed call: _run_git(cwd, "add", ...) raises on a
\* non-zero return code, and then `git commit` is not run
Gate(add_rc, commit) ==
  [ add_rc |-> add_rc, ran |-> add_rc = 0,
    commit |-> IF add_rc = 0 THEN commit ELSE NoGate.commit,
    outcome |-> CommitIfNeeded(add_rc, commit) ]

\* the RuntimeError of _run_git leaves _commit_if_needed and its caller
GateRaised(add_rc, commit) ==
  [call EXCEPT !.at = "raised", !.raised = "RuntimeError", !.raised_at = call.at,
               !.gate = Gate(add_rc, commit)]

\* variant of PushContentNeeded: `if content_committed`
PushContentOnlyIfCommitted(workflow_committed, content_committed) ==
  content_committed

\* variant of PushContentNeeded: the second push is unconditional
PushContentAlways(workflow_committed, content_committed) ==
  TRUE

\* create_and_push_repo: `if content_committed or not workflow_committed`
PushContentNeeded(workflow_committed, content_committed) ==
  content_committed \/ ~workflow_committed

\* the arguments of the pushes of create_and_push_repo
PushUpstream == <<"push", "-u", "origin", "main">>

\* the arguments of the push of push_existing_repo
PushPlain == <<"push", "origin", "main">>

\* the commits created for the repository in one behaviour are capped
MaxCommits == 3

\* `git commit` creates a commit only while the cap allows one more
CommitRoom(add_rc, commit) ==
  (add_rc = 0 /\ commit.rc = 0) => remote.made < MaxCommits

\* the frame after a _commit_if_needed that returned r: a new commit becomes
\* the local HEAD
Committed(frame, r) ==
  IF r = "True"
    THEN [frame EXCEPT !.head = remote.made + 1, !.history = @ \cup {remote.made + 1}]
    ELSE frame

\* the repository after that _commit_if_needed
CommitMade(r) ==
  IF r = "True" THEN [remote EXCEPT !.made = @ + 1] ELSE remote

\* git push: the remote takes the local main when the repository exists,
\* there is a local commit, and either the push is forced or the remote
\* main is absent or is a commit of the local history (fast-forward)
Accepts(args) ==
  /\ remote.exists
  /\ call.head # 0
  /\ \/ Contains(args, "-f")
     \/ Contains(args, "--force")
     \/ remote.main = 0
     \/ remote.main \in call.history

\* the results `git push` with these arguments can have: it may fail for any
\* reason, and succeeds only if the remote accepts
PushOutcomes(args) ==
  {result \in PushResults : result.rc = 0 => Accepts(args)}

\* the repository after a push with this result
Pushed(result) ==
  IF result.rc = 0 THEN [remote EXCEPT !.main = call.head] ELSE remote

\* an exception leaves the function
Raise(kind) ==
  call' = [call EXCEPT !.at = "raised", !.raised = kind, !.raised_at = call.at]

\* where the caller goes on after a push that succeeded
AfterPush(site) ==
  CASE site = "workflow" -> "commit_content"
    [] site = "content"  -> "rev_parse"
    [] site = "round2"   -> "ensure_pages"
    [] OTHER             -> "returned"

\* entering _push_with_retry from a call site
EnterPush(frame, site, args, force_on_conflict) ==
  [frame EXCEPT !.at = "push_first", !.site = site, !.args = args,
                !.force_on_conflict = force_on_conflict]

CallOver == call.at \in {"none", "returned", "raised", "done", "failed"}

\* a round calls create_and_push_repo, in a working directory it has just
\* created, or push_existing_repo, in a fresh clone of a repository that an
\* earlier round 1 published
StartCall ==
  /\ CallOver
  /\ \/ call' = [NoCall EXCEPT !.fn = "create_and_push_repo", !.at = "credentials"]
     \/ /\ remote.main # 0
        /\ call' = [NoCall EXCEPT !.fn = "push_existing_repo", !.at = "credentials",
                                  !.head = remote.main, !.history = {remote.main}]
  /\ UNCHANGED <<roundVars, remote, otherFrames>>

\* _push_with_retry called on its own, with any arguments
StartPush ==
  /\ CallOver
  /\ \E args \in PushArgs, force_on_conflict \in BOOLEAN, head \in 0..remote.made :
       call' = EnterPush([NoCall EXCEPT !.fn = "_push_with_retry", !.head = head,
                                        !.history = {head} \ {0}],
                         "call", args, force_on_conflict)
  /\ UNCHANGED <<roundVars, remote, otherFrames>>

\* _get_credentials: ValueError when the username or the token is missing
GetCredentials ==
  /\ call.at = "credentials"
  /\ \E configured \in BOOLEAN :
       IF ~configured THEN Raise("ValueError")
       ELSE call' = [call EXCEPT !.at =
                       IF call.fn = "create_and_push_repo"
                         THEN "authenticate" ELSE "check_git_dir"]
  /\ UNCHANGED <<roundVars, remote, otherFrames>>

\* g.get_user() and user.login
Authenticate ==
  /\ call.at = "authenticate"
  /\ \E ok \in BOOLEAN :
       IF ok THEN call' = [call EXCEPT !.at = "create_repo"]
             ELSE Raise("ValueError")
  /\ UNCHANGED <<roundVars, remote, otherFrames>>

\* what user.create_repo can answer: it creates the repository when the
\* name is free, and raises when the name is taken or the request fails
CreateAnswers ==
  IF remote.exists THEN {"name taken", "error"} ELSE {"created", "error"}

\* what user.get_repo can answer
GetAnswers ==
  IF remote.exists THEN {"found", "error"} ELSE {"not found", "error"}

\* variant of RepoFor: a create_repo that raised is not followed by get_repo
RepoForNoFallback(create, get) ==
  IF create = "created" THEN "created" ELSE "neither"

\* the try/except around user.create_repo: the repository the function
\* goes on with, or "neither" when it raises
RepoFor(create, get) ==
  IF create = "created" THEN "created"
  ELSE IF get = "found" THEN "reused"
  ELSE "neither"

\* user.create_repo, and user.get_repo when create_repo raised
CreateRepo ==
  /\ call.at = "create_repo"
  /\ \E create \in CreateAnswers, get \in GetAnswers :
       LET out == RepoFor(create, get)
           f == [call EXCEPT !.api = IF create = "created" THEN <<create>>
                                      ELSE <<create, get>>]
       IN /\ call' = IF out = "neither"
                       THEN [f EXCEPT !.at = "raised", !.raised = "Exception",
                                      !.raised_at = call.at]
                       ELSE [f EXCEPT !.at = "git_setup", !.repo = out]
          /\ remote' = IF create = "created"
                         THEN [remote EXCEPT !.exists = TRUE] ELSE remote
  /\ UNCHANGED <<roundVars, otherFrames>>

\* git init, git checkout -B main, git remote remove (failure ignored),
\* git remote add
GitSetup ==
  /\ call.at = "git_setup"
  /\ \E ok \in BOOLEAN :
       IF ok THEN call' = [call EXCEPT !.at = "commit_workflow"]
             ELSE Raise("RuntimeError")
  /\ UNCHANGED <<roundVars, remote, otherFrames>>

\* workflow_committed = _commit_if_needed(..., (".github",)) and the `if`
CommitWorkflow ==
  /\ call.at = "commit_workflow"
  /\ \E add_rc \in {0, 1}, commit \in CommitResults :
       LET r == CommitIfNeeded(add_rc, commit) IN
         /\ CommitRoom(add_rc, commit)
         /\ remote' = CommitMade(r)
         /\ IF r = "raise" THEN call' = GateRaised(add_rc, commit)
            ELSE LET f == [Committed(call, r) EXCEPT
                             !.workflow_committed = (r = "True"),
                             !.gate = Gate(add_rc, commit),
                             !.commits = Append(@, <<"workflow", r>>)]
                 IN call' = IF r = "True"
                              THEN EnterPush(f, "workflow", PushUpstream, TRUE)
                              ELSE [f EXCEPT !.at = "commit_content"]
  /\ UNCHANGED <<roundVars, otherFrames>>

\* _push_with_retry: the first `git push`
PushFirst ==
  /\ call.at = "push_first"
  /\ \E result \in PushOutcomes(call.args) :
       /\ remote' = Pushed(result)
       /\ LET f == [call EXCEPT !.pushes =
                      Append(@, [site |-> call.site, args |-> call.args,
                                 result |-> result,
                                 force_on_conflict |-> call.force_on_conflict])]
          IN IF result.rc = 0
               THEN call' = [f EXCEPT !.at = AfterPush(call.site)]
             ELSE IF ForceRetry(call.force_on_conflict, result)
               THEN call' = [f EXCEPT !.at = "push_force"]
             ELSE call' = [f EXCEPT !.at = "raised", !.raised = HandlePushError(result),
                                    !.raised_at = call.at, !.reported = result]
  /\ UNCHANGED <<roundVars, otherFrames>>

\* variant of PushForce: a forced push that fails raises for the result of
\* the first push
PushForceReportingFirst ==
  /\ call.at = "push_force"
  /\ \E force_result \in PushOutcomes(ForceArgs(call.args)) :
       /\ remote' = Pushed(force_result)
       /\ LET first == call.pushes[Len(call.pushes)].result
              f == [call EXCEPT !.pushes =
                      Append(@, [site |-> call.site, args |-> ForceArgs(call.args),
                                 result |-> force_result,
                                 force_on_conflict |-> call.force_on_conflict])]
          IN IF force_result.rc = 0
               THEN call' = [f EXCEPT !.at = AfterPush(call.site)]
               ELSE call' = [f EXCEPT !.at = "raised",
                                      !.raised = HandlePushError(first),
                                      !.raised_at = call.at, !.reported = first]
  /\ UNCHANGED <<roundVars, otherFrames>>

\* variant of PushForce: a forced push that is rejected again is repeated
PushForceAgain ==
  /\ call.at = "push_force"
  /\ \E force_result \in PushOutcomes(ForceArgs(call.args)) :
       /\ remote' = Pushed(force_result)
       /\ LET f == [call EXCEPT !.pushes =
                      Append(@, [site |-> call.site, args |-> ForceArgs(call.args),
                                 result |-> force_result,
                                 force_on_conflict |-> call.force_on_conflict])]
          IN IF force_result.rc = 0
               THEN call' = [f EXCEPT !.at = AfterPush(call.site)]
             ELSE IF ForceRetry(call.force_on_conflict, force_result)
                     /\ Len(call.pushes) < 4
               THEN call' = f
             ELSE call' = [f EXCEPT !.at = "raised",
                                    !.raised = HandlePushError(force_result),
                                    !.raised_at = call.at, !.reported = force_result]
  /\ UNCHANGED <<roundVars, otherFrames>>

\* _push_with_retry: the forced `git push`
PushForce ==
  /\ call.at = "push_force"
  /\ \E force_result \in PushOutcomes(ForceArgs(call.args)) :
       /\ remote' = Pushed(force_result)
       /\ LET f == [call EXCEPT !.pushes =
                      Append(@, [site |-> call.site, args |-> ForceArgs(call.args),
                                 result |-> force_result,
                                 force_on_conflict |-> call.force_on_conflict])]
          IN IF force_result.rc = 0
               THEN call' = [f EXCEPT !.at = AfterPush(call.site)]
               ELSE call' = [f EXCEPT !.at = "raised",
                                      !.raised = HandlePushError(force_result),
                                      !.raised_at = call.at, !.reported = force_result]
  /\ UNCHANGED <<roundVars, otherFrames>>

\* content_committed = _commit_if_needed(cwd, "Round 1 scaffold") and the `if`
CommitContent ==
  /\ call.at = "commit_content"
  /\ \E add_rc \in {0, 1}, commit \in CommitResults :
       LET r == CommitIfNeeded(add_rc, commit) IN
         /\ CommitRoom(add_rc, commit)
         /\ remote' = CommitMade(r)
         /\ IF r = "raise" THEN call' = GateRaised(add_rc, commit)
            ELSE LET f == [Committed(call, r) EXCEPT
                             !.content_committed = (r = "True"),
                             !.gate = Gate(add_rc, commit),
                             !.commits = Append(@, <<"content", r>>)]
                 IN call' = IF PushContentNeeded(call.workflow_committed, r = "True")
                              THEN EnterPush(f, "content", PushUpstream, TRUE)
                              ELSE [f EXCEPT !.at = "rev_parse"]
  /\ UNCHANGED <<roundVars, otherFrames>>

\* push_existing_repo: `if not (cwd / ".git").exists(): raise`
CheckGitDir ==
  /\ call.at = "check_git_dir"
  /\ \E exists \in BOOLEAN :
       IF exists THEN call' = [call EXCEPT !.at = "set_remote"]
                 ELSE Raise("RuntimeError")
  /\ UNCHANGED <<roundVars, remote, otherFrames>>

\* push_existing_repo: git remote, then git remote add or set-url
SetRemote ==
  /\ call.at = "set_remote"
  /\ \E ok \in BOOLEAN :
       IF ok THEN call' = [call EXCEPT !.at = "commit_changes"]
             ELSE Raise("RuntimeError")
  /\ UNCHANGED <<roundVars, remote, otherFrames>>

\* changes_committed = _commit_if_needed(cwd, commit_message)
CommitChanges ==
  /\ call.at = "commit_changes"
  /\ \E add_rc \in {0, 1}, commit \in CommitResults :
       LET r == CommitIfNeeded(add_rc, commit) IN
         /\ CommitRoom(add_rc, commit)
         /\ remote' = CommitMade(r)
         /\ IF r = "raise" THEN call' = GateRaised(add_rc, commit)
            ELSE call' = [Committed(call, r) EXCEPT
                            !.changes_committed = (r = "True"),
                            !.gate = Gate(add_rc, commit),
                            !.commits = Append(@, <<"changes", r>>),
                            !.at = "rev_parse"]
  /\ UNCHANGED <<roundVars, otherFrames>>

\* commit_sha = _run_git(cwd, "rev-parse", "HEAD"); in push_existing_repo the
\* `if changes_committed` follows
RevParse ==
  /\ call.at = "rev_parse"
  /\ \E ok \in BOOLEAN :
       IF ~ok \/ call.head = 0 THEN Raise("RuntimeError")
       ELSE call' = [call EXCEPT !.commit_sha = call.head, !.at =
                       IF call.fn = "push_existing_repo" /\ call.changes_committed
                         THEN "push_direct" ELSE "ensure_pages"]
  /\ UNCHANGED <<roundVars, remote, otherFrames>>

\* variant of PushDirect: the push goes through _push_with_retry with
\* force_on_conflict=True
PushDirectRetrying ==
  /\ call.at = "push_direct"
  /\ call' = EnterPush(call, "round2", PushPlain, TRUE)
  /\ UNCHANGED <<roundVars, remote, otherFrames>>

\* variant of PushDirect: the return code of the push is not looked at
PushDirectUnchecked ==
  /\ call.at = "push_direct"
  /\ \E push_result \in PushOutcomes(PushPlain) :
       /\ remote' = Pushed(push_result)
       /\ call' = [call EXCEPT !.site = "round2", !.args = PushPlain,
                      !.pushes = Append(@, [site |-> "round2", args |-> PushPlain,
                                            result |-> push_result,
                                            force_on_conflict |-> FALSE]),
                      !.at = "ensure_pages"]
  /\ UNCHANGED <<roundVars, otherFrames>>

\* push_existing_repo: push_result = _run_git(cwd, "push", "origin", "main",
\* check=False) and `if push_result.returncode != 0: _handle_push_error`
PushDirect ==
  /\ call.at = "push_direct"
  /\ \E push_result \in PushOutcomes(PushPlain) :
       /\ remote' = Pushed(push_result)
       /\ LET f == [call EXCEPT !.site = "round2", !.args = PushPlain,
                      !.pushes = Append(@, [site |-> "round2", args |-> PushPlain,
                                            result |-> push_result,
                                            force_on_conflict |-> FALSE])]
          IN IF push_result.rc # 0
               THEN call' = [f EXCEPT !.at = "raised",
                                      !.raised = HandlePushError(push_result),
                                      !.raised_at = call.at, !.reported = push_result]
               ELSE call' = [f EXCEPT !.at = "ensure_pages"]
  /\ UNCHANGED <<roundVars, otherFrames>>

\* _ensure_pages_site(...)
EnsurePages ==
  /\ call.at = "ensure_pages"
  /\ \E answer \in HttpAnswers :
       IF EnsurePagesSite(answer) = "raise"
         THEN Raise("RequestException")
         ELSE call' = [call EXCEPT !.at = "trigger_build"]
  /\ UNCHANGED <<roundVars, remote, otherFrames>>

\* _trigger_pages_build(...) and the return of the dict
TriggerBuild ==
  /\ call.at = "trigger_build"
  /\ \E answer \in HttpAnswers :
       IF TriggerPagesBuild(answer) = "raise"
         THEN Raise("RequestException")
         ELSE call' = [call EXCEPT !.at = "returned"]
  /\ UNCHANGED <<roundVars, remote, otherFrames>>

\* the round after the call returned repo_info: _wait_for_pages and
\* `if not pages_ready: raise`, then the entry with last_commit_sha and the
\* payload of _post_evaluation with commit_sha
UseRepoInfo ==
  /\ call.at = "returned"
  /\ call.fn \in {"create_and_push_repo", "push_existing_repo"}
  /\ \E pages_ready \in BOOLEAN :
       call' = IF pages_ready
                 THEN [call EXCEPT !.at = "done",
                                   !.last_commit_sha = call.commit_sha,
                                   !.payload_commit_sha = call.commit_sha]
                 ELSE [call EXCEPT !.at = "failed"]
  /\ UNCHANGED <<roundVars, remote, otherFrames>>

NextPublish ==
  \/ StartCall
  \/ StartPush
  \/ GetCredentials
  \/ Authenticate
  \/ CreateRepo
  \/ GitSetup
  \/ CommitWorkflow
  \/ PushFirst
  \/ PushForce
  \/ CommitContent
  \/ CheckGitDir
  \/ SetRemote
  \/ CommitChanges
  \/ RevParse
  \/ PushDirect
  \/ EnsurePages
  \/ TriggerBuild
  \/ UseRepoInfo

SpecPublish == Init /\ [][NextPublish]_vars

(***************************************************************************)
(* SpecNotify: _post_evaluation, statement by statement.                   *)
(***************************************************************************)
\* `range(5)`: the number of attempts
MaxAttempts == 5

\* the answer of requests.post(req.evaluation_url, ...): an HTTP status, or
\* TransportError when requests raises
NotifyAnswers == {TransportError, 200, 404, 500}

exceptNote == <<roundVars, call, remote, poll, wd, naming, run>>

\* payload = {...}; backoff = 1; the loop is entered with attempt = 0
StartNotify ==
  /\ note.at = "none"
  /\ note' = [note EXCEPT !.at = "post", !.attempt = 0, !.backoff = 1]
  /\ UNCHANGED exceptNote

\* variant of NotifyPost: the exception of requests.post is not caught
NotifyPostRaising ==
  /\ note.at = "post"
  /\ \E answer \in NotifyAnswers :
       note' = [note EXCEPT
                  !.posts = Append(@, answer),
                  !.at = IF answer = 200 THEN "returned"
                         ELSE IF answer = TransportError THEN "raised"
                         ELSE "sleep",
                  !.logged = IF answer = 200 THEN "info" ELSE "warning"]
  /\ UNCHANGED exceptNote

\* try: resp = requests.post(...); `if resp.status_code == 200: return`;
\* any other status and any exception are logged as a warning
NotifyPost ==
  /\ note.at = "post"
  /\ \E answer \in NotifyAnswers :
       note' = [note EXCEPT
                  !.posts = Append(@, answer),
                  !.at = IF answer = 200 THEN "returned" ELSE "sleep",
                  !.logged = IF answer = 200 THEN "info" ELSE "warning"]
  /\ UNCHANGED exceptNote

\* time.sleep(backoff); backoff *= 2; then the next attempt, or after the
\* last one logger.error and the implicit return
NotifySleep ==
  /\ note.at = "sleep"
  /\ note' = [note EXCEPT
                !.sleeps = Append(@, note.backoff),
                !.backoff = 2 * @,
                !.attempt = @ + 1,
                !.at = IF note.attempt + 1 < MaxAttempts THEN "post" ELSE "returned",
                !.logged = IF note.attempt + 1 < MaxAttempts THEN @ ELSE "error"]
  /\ UNCHANGED exceptNote

NextNotify ==
  \/ StartNotify
  \/ NotifyPost
  \/ NotifySleep

SpecNotify == Init /\ [][NextNotify]_vars

(***************************************************************************)
(* SpecPoll: _wait_for_pages, statement by statement, against a clock.     *)
(***************************************************************************)
\* timeout_seconds, interval_seconds and the timeout of requests.get
TimeoutSeconds == 240

IntervalSeconds == 8

RequestTimeout == 10

\* what requests.get answers: an HTTP status, or TransportError when it raises
PollAnswers == {TransportError, 200, 404}

\* the seconds a request may take
RequestDurations == {0, 3, RequestTimeout}

exceptPoll == <<roundVars, call, remote, note, wd, naming, run>>

\* deadline = time.time() + timeout_seconds
StartPoll ==
  /\ poll.at = "none"
  /\ poll' = [poll EXCEPT !.at = "check", !.deadline = poll.now + TimeoutSeconds]
  /\ UNCHANGED exceptPoll

\* `while time.time() < deadline`; past it logger.warning and return False
PollCheck ==
  /\ poll.at = "check"
  /\ poll' = IF poll.now < poll.deadline
               THEN [poll EXCEPT !.at = "get"]
               ELSE [poll EXCEPT !.at = "returned", !.result = "False"]
  /\ UNCHANGED exceptPoll

\* variant of PollGet: the exception of requests.get is not caught
PollGetRaising ==
  /\ poll.at = "get"
  /\ \E answer \in PollAnswers, took \in RequestDurations :
       poll' = [poll EXCEPT
                  !.polls = @ + 1,
                  !.issued_at = poll.now,
                  !.now = @ + took,
                  !.last = answer,
                  !.saw_error = @ \/ answer = TransportError,
                  !.first_ok = IF answer = 200 /\ @ = 0 THEN poll.polls + 1 ELSE @,
                  !.slept_before = poll.slept,
                  !.slept = 0,
                  !.at = IF answer = 200 THEN "returned"
                         ELSE IF answer = TransportError THEN "raised"
                         ELSE "sleep",
                  !.result = IF answer = 200 THEN "True" ELSE @]
  /\ UNCHANGED exceptPoll

\* try: resp = requests.get(pages_url, timeout=10, ...);
\* `if resp.status_code == 200: return True`; any other status and any
\* exception are logged at info level
PollGet ==
  /\ poll.at = "get"
  /\ \E answer \in PollAnswers, took \in RequestDurations :
       poll' = [poll EXCEPT
                  !.polls = @ + 1,
                  !.issued_at = poll.now,
                  !.now = @ + took,
                  !.last = answer,
                  !.saw_error = @ \/ answer = TransportError,
                  !.first_ok = IF answer = 200 /\ @ = 0 THEN poll.polls + 1 ELSE @,
                  !.slept_before = poll.slept,
                  !.slept = 0,
                  !.at = IF answer = 200 THEN "returned" ELSE "sleep",
                  !.result = IF answer = 200 THEN "True" ELSE @]
  /\ UNCHANGED exceptPoll

\* time.sleep(interval_seconds)
PollSleep ==
  /\ poll.at = "sleep"
  /\ poll' = [poll EXCEPT !.now = @ + IntervalSeconds,
                          !.slept = @ + IntervalSeconds,
                          !.at = "check"]
  /\ UNCHANGED exceptPoll

NextPoll ==
  \/ StartPoll
  \/ PollCheck
  \/ PollGet
  \/ PollSleep

SpecPoll == Init /\ [][NextPoll]_vars

(***************************************************************************)
(* SpecDir: the working directory of one repository name over successive   *)
(* rounds, each of which may fail at any of its steps.                     *)
(***************************************************************************)
\* the number of rounds run one after the other
MaxRounds == 3

\* the files generate_simple_static_app writes and the files the _write_*
\* helpers write
GeneratedFiles == {"index.html"}

WrittenFiles == {"README.md"}

Written(names, n) == {<<name, n>> : name \in names}

\* writing `names` in round n replaces what the directory held under them
Overwrite(files, names, n) ==
  {f \in files : f[1] \notin names} \cup Written(names, n)

exceptDir == <<roundVars, call, remote, note, poll, naming, run>>

\* the except clause of _process_request: the round is over, the directory
\* stays as it is
DirFail(d) == [d EXCEPT !.at = "idle"]

\* _process_request for a round 1 or a round 2 of this repository name
DirStart ==
  /\ wd.at = "idle"
  /\ wd.rounds < MaxRounds
  /\ \E round \in {1, 2} :
       wd' = [wd EXCEPT !.at = "prepare", !.round = round, !.rounds = @ + 1,
                        !.before = wd.files, !.cloned = {}]
  /\ UNCHANGED exceptDir

\* variant of DirPrepare: _safe_rmtree is not called
DirPrepareKeeping ==
  /\ wd.at = "prepare"
  /\ wd' = IF wd.round = 1
             THEN [wd EXCEPT !.exists = TRUE, !.at = "generate"]
             ELSE [wd EXCEPT !.at = "clone"]
  /\ UNCHANGED exceptDir

\* _prepare_local_dir: _safe_rmtree(local_dir) removes the tree or raises
\* having removed part of it; then, when create, local_dir.mkdir, which may
\* raise
DirPrepare ==
  /\ wd.at = "prepare"
  /\ \/ /\ wd.exists
        /\ \E left \in SUBSET wd.files :
             wd' = DirFail([wd EXCEPT !.files = left])
     \/ LET gone == [wd EXCEPT !.exists = FALSE, !.files = {}] IN
          IF wd.round = 1
            THEN \/ wd' = [gone EXCEPT !.exists = TRUE, !.at = "generate"]
                 \/ wd' = DirFail(gone)
            ELSE wd' = [gone EXCEPT !.at = "clone"]
  /\ UNCHANGED exceptDir

\* _clone_repo: it raises when not configured or when `git clone` fails,
\* as it does on a missing remote and on a destination that is not empty;
\* a failed clone may leave part of the content behind
DirClone ==
  /\ wd.at = "clone"
  /\ \/ wd' = DirFail(wd)
     \/ \E part \in SUBSET wd.remote :
          wd' = DirFail([wd EXCEPT !.exists = @ \/ part # {},
                                   !.files = @ \cup part])
     \/ /\ wd.remote_exists
        /\ ~wd.exists \/ wd.files = {}
        /\ wd' = [wd EXCEPT !.exists = TRUE, !.files = wd.remote,
                            !.cloned = wd.remote, !.at = "generate"]
  /\ UNCHANGED exceptDir

\* generate_simple_static_app(req.brief, str(local_dir)) and
\* `if not generated: raise`; a failed generation may have written files
DirGenerate ==
  /\ wd.at = "generate"
  /\ \/ \E part \in SUBSET GeneratedFiles :
          wd' = DirFail([wd EXCEPT !.files = Overwrite(@, part, wd.rounds)])
     \/ wd' = [wd EXCEPT !.files = Overwrite(@, GeneratedFiles, wd.rounds),
                         !.at = "write"]
  /\ UNCHANGED exceptDir

\* _predict_repo_urls and the _write_* helpers
DirWrite ==
  /\ wd.at = "write"
  /\ \/ \E part \in SUBSET WrittenFiles :
          wd' = DirFail([wd EXCEPT !.files = Overwrite(@, part, wd.rounds)])
     \/ wd' = [wd EXCEPT !.files = Overwrite(@, WrittenFiles, wd.rounds),
                         !.at = "publish"]
  /\ UNCHANGED exceptDir

\* create_and_push_repo / push_existing_repo and the rest of the round,
\* which leave the directory alone: the remote is created (round 1) and
\* receives the files when a push succeeds, whether or not the round then
\* fails
DirPublish ==
  /\ wd.at = "publish"
  /\ \E created \in BOOLEAN, pushed \in BOOLEAN :
       /\ pushed => (created \/ wd.remote_exists)
       /\ created => wd.round = 1
       /\ wd' = [wd EXCEPT !.at = "idle",
                           !.remote_exists = @ \/ created,
                           !.remote = IF pushed THEN wd.files ELSE @]
  /\ UNCHANGED exceptDir

NextDir ==
  \/ DirStart
  \/ DirPrepare
  \/ DirClone
  \/ DirGenerate
  \/ DirWrite
  \/ DirPublish

SpecDir == Init /\ [][NextDir]_vars

(***************************************************************************)
(* SpecNaming: task_slug and repo_name of _process_round_one, derived for  *)
(* every task name up to a length and derived again for the same request.  *)
(***************************************************************************)
\* the longest task name and the number of derivations per request
MaxTaskLen == 4

MaxCalls == 2

\* the characters of the task names and nonces: a lower-case letter, an
\* upper-case letter, a digit, the hyphen and two other characters
NameChars == {"a", "Z", "7", "-", " ", "!"}

TaskTexts == UNION {[1..n -> NameChars] : n \in 0..MaxTaskLen}

NonceTexts ==
  { <<>>,
    <<"Z","a","7">>,
    <<"Z","Z","Z","Z","Z","Z">>,
    <<"a","Z","7","-","!","a","Z","7">> }

exceptNaming == <<roundVars, call, remote, note, poll, wd, run>>

\* task_slug = _slugify(req.task);
\* repo_name = f"{task_slug}-{req.nonce[:6].lower()}"
Derive ==
  /\ naming.at = "none"
  /\ \E task \in TaskTexts, nonce \in NonceTexts :
       naming' = [at |-> "derived", task |-> task, nonce |-> nonce,
                  slug |-> Slugify(task),
                  names |-> <<DeriveRepoName(task, nonce)>>]
  /\ UNCHANGED exceptNaming

\* the same request triggers round 1 again
DeriveAgain ==
  /\ naming.at = "derived"
  /\ Len(naming.names) < MaxCalls
  /\ naming' = [naming EXCEPT
                  !.slug = Slugify(naming.task),
                  !.names = Append(@, DeriveRepoName(naming.task, naming.nonce))]
  /\ UNCHANGED exceptNaming

NextNaming ==
  \/ Derive
  \/ DeriveAgain

SpecNaming == Init /\ [][NextNaming]_vars

(***************************************************************************)
(* SpecCreds: one round 1 or round 2, statement by statement, under every  *)
(* configuration of GITHUB_USERNAME and GITHUB_TOKEN.                      *)
(***************************************************************************)
exceptRun == <<roundVars, call, remote, note, poll, wd, naming>>

\* a statement of the round raises `kind`, having had `effects`
RunRaise(kind, effects) ==
  run' = [run EXCEPT !.at = "failed", !.raised = kind, !.raised_at = run.at,
                     !.did = @ \cup effects]

\* a statement of the round completes, having had `effects`
RunGoto(where, effects) ==
  run' = [run EXCEPT !.at = where, !.did = @ \cup effects]

\* _process_request dispatches a round; GITHUB_USERNAME was read when
\* main.py was imported and GITHUB_TOKEN is read from the same environment
RunStart ==
  /\ run.at = "none"
  /\ \E round \in {1, 2}, username \in EnvValues, token \in EnvValues :
       run' = [run EXCEPT !.at = IF round = 1 THEN "prepare" ELSE "lookup",
                          !.round = round, !.username = username, !.token = token]
  /\ UNCHANGED exceptRun

\* _process_round_two: the read of the entry and `if not task_state: raise`
RunLookup ==
  /\ run.at = "lookup"
  /\ \/ RunRaise("RuntimeError", {})
     \/ RunGoto("prepare", {})
  /\ UNCHANGED exceptRun

\* _prepare_local_dir
RunPrepare ==
  /\ run.at = "prepare"
  /\ \/ RunRaise("OSError", {"rmtree"})
     \/ IF run.round = 1
          THEN RunGoto("generate", {"rmtree", "mkdir"})
          ELSE RunGoto("clone", {"rmtree"})
  /\ UNCHANGED exceptRun

\* variant of RunClone: only the username is required before `git clone`
RunCloneUnchecked ==
  /\ run.at = "clone"
  /\ IF Missing(run.username)
       THEN RunRaise("RuntimeError", {})
       ELSE \/ RunRaise("RuntimeError", {"clone"})
            \/ RunGoto("generate", {"clone"})
  /\ UNCHANGED exceptRun

\* _clone_repo: both checks, then `git clone`
RunClone ==
  /\ run.at = "clone"
  /\ IF Missing(run.username) \/ Missing(run.token)
       THEN RunRaise("RuntimeError", {})
       ELSE \/ RunRaise("RuntimeError", {"clone"})
            \/ RunGoto("generate", {"clone"})
  /\ UNCHANGED exceptRun

\* generate_simple_static_app and `if not generated: raise`
RunGenerate ==
  /\ run.at = "generate"
  /\ \/ RunRaise("RuntimeError", {"llm"})
     \/ RunGoto("predict", {"llm"})
  /\ UNCHANGED exceptRun

\* _predict_repo_urls
RunPredict ==
  /\ run.at = "predict"
  /\ IF Missing(run.username)
       THEN RunRaise("RuntimeError", {})
       ELSE RunGoto("write", {})
  /\ UNCHANGED exceptRun

\* the _write_* helpers
RunWrite ==
  /\ run.at = "write"
  /\ \/ RunRaise("OSError", {"files"})
     \/ RunGoto("publish", {"files"})
  /\ UNCHANGED exceptRun

\* create_and_push_repo / push_existing_repo up to `git rev-parse HEAD`:
\* _get_credentials first, then the calls of PublishEffects, any of which
\* may raise
RunPublish ==
  /\ run.at = "publish"
  /\ IF Missing(run.username) \/ Missing(run.token)
       THEN RunRaise("ValueError", {})
       ELSE LET E == PublishEffects(run.round) IN
              \E k \in 0..Len(E) :
                \/ RunRaise("Exception", FirstEffects(E, k))
                \/ /\ k = Len(E) \/ (run.round = 2 /\ k = Len(E) - 1)
                   /\ RunGoto("activate", FirstEffects(E, k))
  /\ UNCHANGED exceptRun

\* _ensure_pages_site and _trigger_pages_build
RunActivate ==
  /\ run.at = "activate"
  /\ \/ RunRaise("RequestException", {"pages_api"})
     \/ RunRaise("RequestException", {"pages_api", "pages_build"})
     \/ RunGoto("verify", {"pages_api", "pages_build"})
  /\ UNCHANGED exceptRun

\* _wait_for_pages and `if not pages_ready: raise`
RunVerify ==
  /\ run.at = "verify"
  /\ \/ RunRaise("RuntimeError", {"poll"})
     \/ RunGoto("record", {"poll"})
  /\ UNCHANGED exceptRun

\* the `with STATE_LOCK` block that saves the entry
RunRecord ==
  /\ run.at = "record"
  /\ RunGoto("notify", {"record"})
  /\ UNCHANGED exceptRun

\* _post_evaluation
RunNotify ==
  /\ run.at = "notify"
  /\ RunGoto("done", {"notify"})
  /\ UNCHANGED exceptRun

NextCreds ==
  \/ RunStart
  \/ RunLookup
  \/ RunPrepare
  \/ RunClone
  \/ RunGenerate
  \/ RunPredict
  \/ RunWrite
  \/ RunPublish
  \/ RunActivate
  \/ RunVerify
  \/ RunRecord
  \/ RunNotify

SpecCreds == Init /\ [][NextCreds]_vars

(***************************************************************************)
(* Properties.                                                             *)
(***************************************************************************)
\* the pushes one call site has run, in order
SitePushes(site) == SelectSeq(call.pushes, LAMBDA e : e.site = site)

\* the call sites that have pushed
PushSites == {call.pushes[i].site : i \in 1..Len(call.pushes)}

\* the call is inside _push_with_retry
Pushing == call.at \in {"push_first", "push_force"}

\* the remote rejected the push for diverged history
RejectedForHistory(result) ==
  /\ result.rc # 0
  /\ "non-fast-forward" \in result.stderr \/ "fetch first" \in result.stderr

\* the stderr of the push holds the permission-denial pattern
PermissionDenied(result) ==
  "Permission to" \in result.stderr /\ "denied" \in result.stderr

BothNothing == <<<<"workflow", "False">>, <<"content", "False">>>>

OnlyWorkflow == <<<<"workflow", "True">>, <<"content", "False">>>>

\* C1, as the specification states it: in create_and_push_repo, when the
\* workflow commit and the content commit both yield "nothing to commit",
\* no push is attempted.
C1_NoPushWhenNothingCommitted ==
  (call.fn = "create_and_push_repo" /\ call.commits = BothNothing)
    => call.pushes = <<>>

\* C1, amended: in create_and_push_repo, when both commits yield "nothing to
\* commit", the second push is still attempted: once the content commit has
\* returned false the function is inside _push_with_retry, and afterwards
\* the pushes that were run are those of that one call site.
C1_OnePushWhenNothingCommitted ==
  (call.fn = "create_and_push_repo" /\ call.commits = BothNothing)
    => \/ Pushing /\ call.site = "content"
       \/ PushSites = {"content"}

C1_Witness ==
  /\ call.fn = "create_and_push_repo"
  /\ call.commits = BothNothing
  /\ call.at = "raised"
  /\ PushSites = {"content"}

\* C2, as the specification states it: in push_existing_repo, a push that
\* is rejected for diverged history is followed by one forced push.
C2_Round2ForcesOnConflict ==
  (/\ call.fn = "push_existing_repo"
   /\ call.pushes # <<>>
   /\ RejectedForHistory(call.pushes[1].result))
    => \/ call.at = "push_force"
       \/ Len(call.pushes) = 2 /\ Contains(call.pushes[2].args, "-f")

\* C2, amended: push_existing_repo runs at most one `git push`, without a
\* force flag, and when that push fails (diverged history included) the
\* function raises the push error instead of retrying.
C2_Round2PushNotRetried ==
  call.fn = "push_existing_repo"
    => /\ Len(call.pushes) <= 1
       /\ \A i \in 1..Len(call.pushes) :
            /\ ~Contains(call.pushes[i].args, "-f")
            /\ ~Contains(call.pushes[i].args, "--force")
            /\ call.pushes[i].result.rc # 0
                 => /\ call.at = "raised"
                    /\ call.raised \in {"PermissionError", "RuntimeError"}

C2_Witness ==
  /\ call.fn = "push_existing_repo"
  /\ Len(call.pushes) = 1
  /\ RejectedForHistory(call.pushes[1].result)
  /\ call.at = "raised"

\* C5: a call of _push_with_retry with force_on_conflict set whose first
\* push is rejected for diverged history runs exactly two pushes, whatever
\* the forced one returns; no call runs more than two.
C5_ExactlyOneForcedRetry ==
  \A site \in {"workflow", "content", "call"} :
    LET ps == SitePushes(site) IN
      /\ Len(ps) <= 2
      /\ (/\ Len(ps) >= 1
          /\ ps[1].force_on_conflict
          /\ RejectedForHistory(ps[1].result)
          /\ ~(call.at = "push_force" /\ call.site = site))
           => /\ Len(ps) = 2
              /\ Contains(ps[2].args, "-f") \/ Contains(ps[2].args, "--force")

C5_Witness ==
  /\ call.at = "raised"
  /\ call.raised_at = "push_force"
  /\ Len(SitePushes(call.site)) = 2
  /\ RejectedForHistory(call.pushes[Len(call.pushes)].result)

\* C6: in create_and_push_repo, when the workflow commit creates a commit
\* and the content commit yields "nothing to commit", the only push attempt
\* is the one that followed the workflow commit.
C6_OnePushAfterWorkflowCommit ==
  (call.fn = "create_and_push_repo" /\ call.commits = OnlyWorkflow)
    => /\ PushSites = {"workflow"}
       /\ ~Pushing

C6_Witness ==
  /\ call.fn = "create_and_push_repo"
  /\ call.commits = OnlyWorkflow
  /\ call.at = "returned"
  /\ Len(call.pushes) = 1

\* C9: when a push fails for good - the first push of _push_with_retry
\* without a forced retry, the forced push, or the push of
\* push_existing_repo - the exception reports the result of the last push
\* run, and it is PermissionError exactly when that stderr holds
\* "Permission to" and "denied", RuntimeError otherwise.
C9_PermissionErrorClassified ==
  (call.at = "raised" /\ call.raised_at \in {"push_first", "push_force", "push_direct"})
    => LET last == call.pushes[Len(call.pushes)].result IN
         /\ last.rc # 0
         /\ call.reported = last
         /\ PermissionDenied(last) => call.raised = "PermissionError"
         /\ ~PermissionDenied(last) => call.raised = "RuntimeError"

C9_Witness ==
  /\ call.at = "raised"
  /\ call.raised_at = "push_force"
  /\ call.raised = "PermissionError"
  /\ ~PermissionDenied(call.pushes[Len(call.pushes) - 1].result)

\* task p has been accepted and has run the first step of its round
Started(p) == pc[p] \notin {"idle", "rejected", "scheduled"}

\* task p has written its entry to the state document
Recorded(p) == "record" \in did[p]

\* nonce[:6].lower(), tabulated
NoncePrefix == [n \in Nonces |-> Lower(Prefix6(n))]

\* the round-1 requests accepted so far for slug s agree on the first six
\* characters of the nonce, letter case aside
SameNoncePrefix(s) ==
  \A p, q \in Procs :
    (/\ req[p].round = 1 /\ TaskSlug(p) = s
     /\ req[q].round = 1 /\ TaskSlug(q) = s)
      => NoncePrefix[req[p].nonce] = NoncePrefix[req[q].nonce]

\* C3, as the specification states it: once a task slug has a stored
\* record, no step changes its repo_name.
C3_RepoNameImmutable ==
  [][\A s \in Slugs :
       store[s] # NoRecord => store'[s].repo_name = store[s].repo_name]_vars

\* C3, amended: as long as the round-1 triggers of a task agree on the first
\* six characters of the nonce (letter case aside), no step changes the
\* repo_name of the task's stored record, whatever rounds 1 and 2 run and
\* whatever nonce a round 2 carries.
C3_RepoNameStableForOneNonce ==
  [][\A s \in Slugs :
       (store[s] # NoRecord /\ SameNoncePrefix(s))
         => store'[s].repo_name = store[s].repo_name]_vars

C3_Witness ==
  \E p, q \in Procs :
    /\ p # q
    /\ TaskSlug(p) = TaskSlug(q)
    /\ req[p].round = 1 /\ req[q].round = 2
    /\ req[p].nonce # req[q].nonce
    /\ Recorded(p) /\ Recorded(q)
    /\ store[TaskSlug(p)].repo_name = repo_name[p]

\* C4, as the specification states it: whatever the hosting API answers,
\* a round in ACTIVATING goes on to VERIFYING.
C4_ActivationNeverAborts ==
  [][\A p \in Procs :
       pc[p] = "ACTIVATING" => pc'[p] \in {"ACTIVATING", "VERIFYING"}]_vars

\* C7: a round 2 that found no entry for its task slug has failed, and it
\* has made no network call, run no git command, removed no directory and
\* written no entry.
C7_UnknownTaskFailsFirst ==
  \A p \in Procs :
    (Started(p) /\ req[p].round = 2 /\ task_state[p] = NoRecord)
      => pc[p] = "FAILED" /\ did[p] = {}

C7_Witness ==
  \E p \in Procs :
    /\ req[p].round = 2
    /\ pc[p] = "FAILED"
    /\ task_state[p] = NoRecord
    /\ \E s \in Slugs : store[s] # NoRecord

\* C8: a round that has failed has written no entry to the state document
\* and has posted no evaluation, at whatever stage it failed.
C8_FailedRoundLeavesNoTrace ==
  \A p \in Procs :
    pc[p] = "FAILED" => "record" \notin did[p] /\ "notify" \notin did[p]

C8_Witness ==
  \E p \in Procs :
    /\ pc[p] = "FAILED"
    /\ {"push", "pages_build", "poll"} \subseteq did[p]

\* C10: the entry of a task that has recorded is in the state document, and
\* it is the one that task wrote unless a later round of the same slug
\* replaced it; a write for another slug never removes or changes it.
C10_NoLostEntry ==
  \A p \in Procs :
    Recorded(p) =>
      /\ store[TaskSlug(p)] # NoRecord
      /\ (\A q \in Procs : (q # p /\ Recorded(q)) => TaskSlug(q) # TaskSlug(p))
           => /\ store[TaskSlug(p)].repo_name = repo_name[p]
              /\ store[TaskSlug(p)].pages_ready

C10_Witness ==
  /\ \A p \in Procs : pc[p] = "DONE" /\ Recorded(p)
  /\ \A p, q \in Procs : p # q => TaskSlug(p) # TaskSlug(q)
  /\ \A p \in Procs : store[TaskSlug(p)] # NoRecord

(***************************************************************************)
(* The evaluation notifier (SpecNotify)                                    *)
(***************************************************************************)
FailedPosts == {i \in 1..Len(note.posts) : note.posts[i] # 200}

\* C11: _post_evaluation makes at most 5 attempts, makes none after the
\* first HTTP 200, sleeps 2^(k-1) after the k-th failed attempt and never
\* lets an exception escape; when every attempt fails it returns after
\* exactly 5 attempts and the delays 1, 2, 4, 8, 16.
C11_BoundedBackoff ==
  /\ Len(note.posts) <= 5
  /\ note.at # "raised"
  /\ \A i \in 1..Len(note.posts) :
       note.posts[i] = 200 =>
         /\ i = Len(note.posts)
         /\ note.at = "returned"
         /\ Len(note.sleeps) = i - 1
  /\ \A k \in 1..Len(note.sleeps) :
       /\ note.sleeps[k] = 2 ^ (k - 1)
       /\ note.posts[k] # 200
  /\ Len(note.sleeps) \in {Cardinality(FailedPosts), Cardinality(FailedPosts) - 1}
  /\ Len(note.sleeps) < Cardinality(FailedPosts) <=> note.at = "sleep"
  /\ (note.at = "returned" /\ FailedPosts = 1..Len(note.posts)) =>
       /\ Len(note.posts) = 5
       /\ note.sleeps = <<1, 2, 4, 8, 16>>

C11_Witness ==
  /\ note.at = "returned"
  /\ note.posts = <<500, 500, 500, 500, 500>>
  /\ note.sleeps = <<1, 2, 4, 8, 16>>

(***************************************************************************)
(* The readiness poll (SpecPoll)                                           *)
(***************************************************************************)
\* C12: _wait_for_pages returns true at the first poll answered 200 and
\* issues no request after it; it returns false, and never raises, only
\* once the deadline has passed without a 200; a poll that raised a network
\* error is followed by further polling like any other failed poll; and
\* between two consecutive polls it sleeps the fixed interval, once.
C12_PollUntilReadyOrDeadline ==
  /\ poll.at # "raised"
  /\ poll.first_ok # 0 =>
       /\ poll.first_ok = poll.polls
       /\ poll.at = "returned"
       /\ poll.result = "True"
  /\ poll.result = "True" => poll.last = 200 /\ poll.first_ok = poll.polls
  /\ poll.result = "False" =>
       /\ poll.at = "returned"
       /\ poll.now >= 240
       /\ poll.first_ok = 0
  /\ (poll.at = "returned") <=> (poll.result # "none")
  /\ poll.polls > 0 => poll.issued_at < 240
  /\ (poll.last = 0 /\ poll.polls > 0) => poll.at \in {"sleep", "check", "get", "returned"}
  /\ (poll.at = "returned" /\ poll.last # 200) => poll.result = "False"
  /\ poll.polls >= 2 => poll.slept_before = 8
  /\ (poll.polls >= 1 /\ poll.at = "get") => poll.slept = 8

C12_Witness ==
  /\ poll.result = "False"
  /\ poll.saw_error
  /\ poll.last = 0
  /\ poll.polls >= 2

(***************************************************************************)
(* Rounds, continued (Spec)                                                *)
(***************************************************************************)
\* task q is a round 1 that recorded `name` for the slug of task p
RecordedBy(q, p, name) ==
  /\ req[q].round = 1
  /\ Recorded(q)
  /\ TaskSlug(q) = TaskSlug(p)
  /\ repo_name[q] = name

\* C13: whatever nonce a round-2 request carries, the working directory, the
\* clone source and the push target of the round are all named by the
\* repo_name found in the stored entry of the task slug, which a round 1
\* recorded; none is named by a derivation from the request.
C13_Round2UsesRecordedName ==
  \A p \in Procs :
    (req[p].round = 2 /\ pc[p] \notin {"idle", "rejected", "scheduled"}) =>
      LET name == task_state[p].repo_name IN
        /\ task_state[p] # NoRecord => \E q \in Procs : RecordedBy(q, p, name)
        /\ target[p].workdir = IF "rmtree" \in did[p] THEN name ELSE <<>>
        /\ target[p].clone = IF "clone" \in did[p] THEN name ELSE <<>>
        /\ target[p].push = IF "push" \in did[p] THEN name ELSE <<>>

C13_Witness ==
  \E p \in Procs :
    /\ req[p].round = 2
    /\ task_state[p] # NoRecord
    /\ task_state[p].repo_name # RepoNameTable[req[p].task, req[p].nonce]
    /\ target[p] = [workdir |-> task_state[p].repo_name,
                    clone |-> task_state[p].repo_name,
                    push |-> task_state[p].repo_name]

\* C14: after the readiness check the round records, then notifies: the
\* evaluation is posted only once the entry is saved and only when the
\* site was polled and found ready; a notification that was never
\* delivered leaves the saved entry in place and the round ends DONE, and
\* no round that has posted ends FAILED.
C14_RecordThenNotify ==
  \A p \in Procs :
    /\ pc[p] \in {"RECORDING", "SAVING"} =>
         "poll" \in did[p] /\ "record" \notin did[p] /\ "notify" \notin did[p]
    /\ pc[p] = "NOTIFYING" =>
         "poll" \in did[p] /\ "record" \in did[p] /\ "notify" \notin did[p]
    /\ "record" \in did[p] =>
         /\ pc[p] \in {"NOTIFYING", "DONE"}
         /\ store[TaskSlug(p)] # NoRecord
         /\ store[TaskSlug(p)].pages_ready
    /\ "notify" \in did[p] =>
         /\ pc[p] = "DONE"
         /\ "record" \in did[p]
         /\ "poll" \in did[p]
    /\ pc[p] = "FAILED" => "notify" \notin did[p] /\ "record" \notin did[p]

C14_Witness ==
  \E p \in Procs :
    /\ pc[p] = "DONE"
    /\ "notify" \in did[p]
    /\ "delivered" \notin did[p]
    /\ store[TaskSlug(p)] = IF req[p].round = 1 THEN RoundOneEntry(p) ELSE RoundTwoEntry(p)

\* no request has been accepted so far
NoneAccepted == \A p \in Procs : resp[p] # "accepted"

\* C15: a /build request with a wrong secret is answered 403, schedules no
\* background round and changes no state; one with the right secret is
\* answered "accepted" and schedules one round, and the answer stays the
\* same whether that round ends DONE or FAILED.
C15_SecretGate ==
  /\ \A p \in Procs :
       /\ resp[p] = "403" =>
            /\ pc[p] = "rejected"
            /\ req[p] = NoReq
            /\ did[p] = {}
            /\ target[p] = NoTarget
            /\ task_state[p] = NoRecord
       /\ resp[p] = "accepted" <=> pc[p] \notin {"idle", "rejected"}
       /\ resp[p] = "accepted" => req[p] \in Requests
       /\ resp[p] = "none" <=> pc[p] = "idle"
       /\ pc[p] \in {"DONE", "FAILED"} => resp[p] = "accepted"
  /\ NoneAccepted => store = EmptyDoc /\ lock = 0

C15_Witness ==
  \E p, q \in Procs :
    /\ resp[p] = "403"
    /\ resp[q] = "accepted"
    /\ pc[q] = "FAILED"
    /\ "llm" \in did[q]

\* what a round does once the site is generated
AfterGeneration ==
  {"github_api", "repo_create", "git", "commit", "push", "pages_api",
   "pages_build", "poll", "record", "notify", "delivered"}

\* C16: a round whose generation failed, by returning false or by raising,
\* has ended FAILED and has created no repository, committed and pushed
\* nothing, activated no hosting, polled nothing, recorded nothing and
\* notified nobody.
C16_GenerationFailureIsFatal ==
  \A p \in Procs :
    raised_in[p] = "GENERATING" =>
      /\ pc[p] = "FAILED"
      /\ "llm" \in did[p]
      /\ did[p] \cap AfterGeneration = {}
      /\ target[p].push = <<>>

C16_Witness ==
  \E p, q \in Procs :
    /\ req[p].round = 2
    /\ raised_in[p] = "GENERATING"
    /\ "clone" \in did[p]
    /\ req[q].round = 1
    /\ raised_in[q] = "none"

(***************************************************************************)
(* The working directory (SpecDir)                                         *)
(***************************************************************************)
\* C17: when the generation of a round starts, after any sequence of
\* earlier rounds for the same repository name that succeeded or failed at
\* any step, the working directory exists and holds nothing of them: it is
\* empty in round 1 and holds exactly the content just cloned from the
\* remote in round 2.
C17_NoLeftovers ==
  wd.at = "generate" =>
    /\ wd.exists
    /\ wd.round = 1 => wd.files = {}
    /\ wd.round = 2 => wd.files = wd.cloned /\ wd.cloned = wd.remote

C17_Witness ==
  /\ wd.at = "generate"
  /\ wd.round = 2
  /\ wd.files # {}
  /\ \E f \in wd.before : f \notin wd.files

(***************************************************************************)
(* The commit gate (SpecPublish)                                           *)
(***************************************************************************)
\* C18: _commit_if_needed returns False, raising nothing, exactly when
\* `git add` succeeded and `git commit` failed reporting "nothing to
\* commit"; it returns True exactly when `git add` succeeded and the commit
\* was created; every other failure of `git add` or `git commit` leaves it
\* as an error and is never reported as False.
C18_CommitGate ==
  LET g == call.gate IN
    g.outcome # "none" =>
      /\ g.outcome = "False" <=>
           (g.add_rc = 0 /\ g.ran /\ g.commit.rc # 0 /\ g.commit.nothing)
      /\ g.outcome = "True" <=> (g.add_rc = 0 /\ g.ran /\ g.commit.rc = 0)
      /\ g.outcome = "raise" <=>
           (g.add_rc # 0 \/ (g.ran /\ g.commit.rc # 0 /\ ~g.commit.nothing))
      /\ g.outcome = "raise" =>
           /\ call.at = "raised"
           /\ call.raised = "RuntimeError"
           /\ call.raised_at \in {"commit_workflow", "commit_content", "commit_changes"}
      /\ g.outcome \in {"True", "False"} =>
           /\ call.commits # <<>>
           /\ call.commits[Len(call.commits)][2] = g.outcome
           /\ call.raised_at \notin {"commit_workflow", "commit_content", "commit_changes"}

C18_Witness ==
  /\ call.gate.outcome = "False"
  /\ call.gate.commit = [rc |-> 1, nothing |-> TRUE]
  /\ call.at = "returned"
  /\ \E i \in 1..Len(call.commits) : call.commits[i][2] = "True"

(***************************************************************************)
(* Termination of the rounds (FairSpec)                                    *)
(***************************************************************************)
\* C19: under a fair scheduler and external calls that return, every round
\* that was scheduled eventually is DONE or FAILED, from whatever stage it
\* has reached: no other stage is one a round stays in for ever.
C19_RoundsTerminate ==
  \A p \in Procs :
    (pc[p] \notin {"idle", "rejected"}) ~> (pc[p] \in {"DONE", "FAILED"})

C19_Witness ==
  /\ \A p \in Procs : pc[p] \in {"DONE", "FAILED"}
  /\ \E p \in Procs : pc[p] = "DONE" /\ "notify" \in did[p]
  /\ \E p \in Procs : pc[p] = "FAILED" /\ "push" \in did[p]

(***************************************************************************)
(* The repository name (SpecNaming)                                        *)
(***************************************************************************)
\* lower case of the characters of NameChars, and those of them in [a-z0-9]
RefLower == [c \in {"a", "Z", "7", "-", " ", "!"} |-> IF c = "Z" THEN "z" ELSE c]

RefKept == {"a", "z", "7"}

\* the m-th smallest element of a set of positions
Nth(S, m) == CHOOSE i \in S : Cardinality({j \in S : j <= i}) = m

\* y is the slug of x: "project" when x has no character of [a-z0-9] once
\* lowered; else those characters in order, lowered, with one hyphen
\* between two of them exactly when other characters separate them in x,
\* and no hyphen at either end
IsSlugOf(y, x) ==
  LET K == {i \in 1..Len(x) : RefLower[x[i]] \in RefKept}
      H == {i \in 1..Len(y) : y[i] # "-"}
      n == Cardinality(K)
  IN IF n = 0 THEN y = <<"p","r","o","j","e","c","t">>
     ELSE /\ \A i \in 1..Len(y) : y[i] \in RefKept \cup {"-"}
          /\ y[1] # "-"
          /\ y[Len(y)] # "-"
          /\ \A i \in 1..(Len(y) - 1) : ~(y[i] = "-" /\ y[i + 1] = "-")
          /\ Cardinality(H) = n
          /\ \A m \in 1..n : y[Nth(H, m)] = RefLower[x[Nth(K, m)]]
          /\ \A m \in 1..(n - 1) :
               (Nth(H, m + 1) - Nth(H, m) = 2) <=> (Nth(K, m + 1) - Nth(K, m) > 1)

\* name is y, a hyphen and the first 6 characters of the nonce, lowered
IsNameOf(name, y, nonce) ==
  LET k == IF Len(nonce) < 6 THEN Len(nonce) ELSE 6 IN
    /\ Len(name) = Len(y) + 1 + k
    /\ \A i \in 1..Len(y) : name[i] = y[i]
    /\ name[Len(y) + 1] = "-"
    /\ \A i \in 1..k : name[Len(y) + 1 + i] = RefLower[nonce[i]]

\* C20: the round-1 repository name is slug(task), "-" and the first 6
\* characters of the nonce lowercased, where the slug is the task lowercased
\* with each maximal run of characters outside [a-z0-9] replaced by one
\* hyphen and the hyphens at both ends stripped, or "project" when that is
\* empty; every derivation for the same task and nonce gives the same name.
C20_RepoNameDerivation ==
  naming.at = "derived" =>
    /\ IsSlugOf(naming.slug, naming.task)
    /\ \A i \in 1..Len(naming.names) :
         /\ IsNameOf(naming.names[i], naming.slug, naming.nonce)
         /\ naming.names[i] = naming.names[1]

C20_Witness ==
  /\ naming.task = <<"!", "Z", " ", "7">>
  /\ naming.nonce = <<"a","Z","7","-","!","a","Z","7">>
  /\ naming.slug = <<"z", "-", "7">>
  /\ Len(naming.names) = 2
  /\ naming.names[2] = <<"z","-","7","-","a","z","7","-","!","a">>

(***************************************************************************)
(* Missing credentials (SpecCreds)                                         *)
(***************************************************************************)
\* what the publish side of a round does
PublishSide ==
  {"clone", "github_api", "repo_create", "git", "commit", "push", "pages_api",
   "pages_build", "record", "notify"}

\* C21: in a round 1 or a round 2 that runs without GITHUB_USERNAME or
\* without GITHUB_TOKEN, no git command runs, no repository is created,
\* nothing is pushed, no hosting activation is requested, nothing is
\* recorded and nobody is notified, and the round does not get past the
\* first statement that needs the missing value: it fails there.
C21_MissingCredentialsAreFatal ==
  (run.at # "none" /\ (Missing(run.username) \/ Missing(run.token))) =>
    /\ run.did \cap PublishSide = {}
    /\ run.at \in {"lookup", "prepare", "clone", "generate", "predict", "write",
                   "publish", "failed"}
    /\ run.at = "publish" => ~Missing(run.username)
    /\ run.at = "failed" =>
         run.raised_at \in {"lookup", "prepare", "clone", "generate", "predict",
                            "write", "publish"}
    /\ run.at \in {"generate", "predict", "write", "publish"} => run.round = 1

C21_Witness ==
  /\ run.at = "failed"
  /\ run.round = 1
  /\ run.username = "set"
  /\ run.token = "empty"
  /\ run.raised = "ValueError"
  /\ run.raised_at = "publish"
  /\ run.did = {"rmtree", "mkdir", "llm", "files"}

(***************************************************************************)
(* The merge of round 2 (SpecRecorded)                                     *)
(***************************************************************************)
\* C22: whenever a round 2 saves its entry, the entry it writes is the
\* entry the store holds for the slug at that moment with only the
\* publishing fields replaced: repo_name and nonce are those of the stored
\* entry, whatever other rounds recorded since the round 2 began.
C22_RoundTwoMergesStoredEntry ==
  [][\A p \in Procs :
       (pc[p] = "SAVING" /\ pc'[p] = "NOTIFYING" /\ req[p].round = 2) =>
         store'[TaskSlug(p)] = [store[TaskSlug(p)] EXCEPT !.pages_ready = TRUE]]_vars

(***************************************************************************)
(* The forced retry (SpecPublish)                                          *)
(***************************************************************************)
\* the positions of args that hold a force flag
ForceFlags(args) == {i \in 1..Len(args) : args[i] \in {"-f", "--force"}}

\* args without the element at position i
Without(args, i) == SubSeq(args, 1, i - 1) \o SubSeq(args, i + 1, Len(args))

\* the call sites of _push_with_retry
RetrySites == {"workflow", "content", "call"}

\* C23: _push_with_retry runs a second push only when force_on_conflict is
\* set and the first push failed with "non-fast-forward" or "fetch first"
\* in its stderr; a first push that failed otherwise is the only push and
\* the call has raised.  The second push has the arguments of the first,
\* with "-f" inserted right after "push" when they held neither "-f" nor
\* "--force" and unchanged when they did, so it holds exactly one force
\* flag.
C23_ForceOnlyOnConflict ==
  \A site \in RetrySites :
    LET ps == SitePushes(site) IN
      /\ Len(ps) <= 2
      /\ Len(ps) = 2 =>
           /\ ps[1].force_on_conflict
           /\ RejectedForHistory(ps[1].result)
           /\ ps[2].args[1] = "push"
           /\ Cardinality(ForceFlags(ps[2].args)) = 1
           /\ IF ForceFlags(ps[1].args) = {}
                THEN ps[2].args[2] = "-f" /\ Without(ps[2].args, 2) = ps[1].args
                ELSE ps[2].args = ps[1].args
      /\ (/\ Len(ps) >= 1
          /\ ps[1].result.rc # 0
          /\ ~(ps[1].force_on_conflict /\ RejectedForHistory(ps[1].result)))
           => /\ Len(ps) = 1
              /\ call.at = "raised"
              /\ call.raised_at = "push_first"

C23_Witness ==
  /\ call.fn = "create_and_push_repo"
  /\ Len(call.pushes) = 2
  /\ call.pushes[1].args = <<"push", "-u", "origin", "main">>
  /\ call.pushes[2].args = <<"push", "-f", "-u", "origin", "main">>
  /\ call.pushes[2].site = "workflow"
  /\ call.at = "commit_content"

\* C25: a call of _push_with_retry that has returned ran a last push that
\* exited zero; when the forced push fails the call raises, reporting the
\* result of the forced push; and push_existing_repo is past its push step
\* only if it committed nothing and pushed nothing, or its one push exited
\* zero.
C25_PushSucceededOrRaised ==
  /\ \A site \in RetrySites :
       LET ps == SitePushes(site) IN
         (/\ Len(ps) >= 1
          /\ ~(Pushing /\ call.site = site)
          /\ ~(call.at = "raised" /\ call.raised_at \in {"push_first", "push_force"}
                 /\ call.site = site))
           => ps[Len(ps)].result.rc = 0
  /\ \A site \in RetrySites :
       LET ps == SitePushes(site) IN
         (Len(ps) = 2 /\ ps[2].result.rc # 0) =>
           /\ call.at = "raised"
           /\ call.raised_at = "push_force"
           /\ call.site = site
           /\ call.reported = ps[2].result
  /\ (call.fn = "push_existing_repo"
        /\ call.at \in {"ensure_pages", "trigger_build", "returned"}) =>
       LET ps == SitePushes("round2") IN
         \/ ~call.changes_committed /\ ps = <<>>
         \/ call.changes_committed /\ Len(ps) = 1 /\ ps[1].result.rc = 0

C25_Witness ==
  /\ call.at = "raised"
  /\ call.raised_at = "push_force"
  /\ Len(call.pushes) = 2
  /\ call.pushes[1].result # call.pushes[2].result
  /\ call.reported = call.pushes[2].result
  /\ call.reported.stderr = {}

(***************************************************************************)
(* The remote repository (SpecPublish)                                     *)
(***************************************************************************)
\* the call has pushed what it had to push
PastPushes == call.at \in {"rev_parse", "ensure_pages", "trigger_build", "returned",
                          "done", "failed"}

\* C24: a create_and_push_repo for a repository that already exists goes on
\* with the existing repository whenever get_repo finds it - the refusal
\* of create_repo alone never makes it raise, and the repository keeps
\* existing - and once such a call is past its pushes, the remote main is
\* the local HEAD, a commit of this call, whatever main pointed to before.
C24_RerunReusesAndOverwrites ==
  call.fn = "create_and_push_repo" =>
    /\ (Len(call.api) = 2 /\ call.api[2] = "found") =>
         /\ call.repo = "reused"
         /\ ~(call.at = "raised" /\ call.raised_at = "create_repo")
    /\ call.repo # "none" => remote.exists
    /\ (call.at = "raised" /\ call.raised_at = "create_repo") =>
         /\ call.api[1] # "created"
         /\ call.api[2] # "found"
    /\ PastPushes =>
         /\ call.head # 0
         /\ call.history = (remote.made - Cardinality(call.history) + 1)..remote.made
         /\ remote.main = call.head

C24_Witness ==
  /\ call.fn = "create_and_push_repo"
  /\ call.api = <<"name taken", "found">>
  /\ call.at = "returned"
  /\ Len(call.pushes) = 2
  /\ RejectedForHistory(call.pushes[1].result)
  /\ call.pushes[2].result.rc = 0
  /\ call.pushes[2].site = "workflow"
  /\ call.history = {3}
  /\ remote.main = 3

\* C26: when a round is done, the commit it stored as last_commit_sha and
\* posted as commit_sha is the commit the remote main points to: in round 1
\* the local HEAD, which the last push that was run took to the remote; in
\* round 2 the new commit when one was made and pushed, and the HEAD of the
\* clone when nothing was committed and nothing pushed.
C26_RecordedShaIsRemoteHead ==
  call.at = "done" =>
    /\ call.last_commit_sha = remote.main
    /\ call.payload_commit_sha = remote.main
    /\ remote.main = call.head
    /\ remote.main # 0
    /\ call.fn = "create_and_push_repo" =>
         /\ call.pushes # <<>>
         /\ call.pushes[Len(call.pushes)].result.rc = 0
    /\ (call.fn = "push_existing_repo" /\ call.changes_committed) =>
         /\ Cardinality(call.history) = 2
         /\ call.head = remote.made
         /\ Len(call.pushes) = 1
         /\ call.pushes[1].result.rc = 0
    /\ (call.fn = "push_existing_repo" /\ ~call.changes_committed) =>
         /\ call.history = {call.head}
         /\ call.pushes = <<>>

C26_Witness ==
  /\ call.at = "done"
  /\ call.fn = "push_existing_repo"
  /\ call.changes_committed
  /\ call.last_commit_sha = 3
  /\ call.payload_commit_sha = 3
  /\ remote.main = 3

(***************************************************************************)
(* Unsupported rounds (Spec)                                               *)
(***************************************************************************)
\* C27: a trigger with the right secret and a round above 2 is answered
\* "accepted" and its background task ends without a pipeline step: it
\* touches no working directory, clones and pushes nothing, calls no
\* service, writes no entry and posts no evaluation, and it does not fail;
\* every entry in the state document was written by a round 1 or a round 2.
C27_UnsupportedRoundDoesNothing ==
  /\ \A p \in Procs :
       (req[p] # NoReq /\ req[p].round \notin {1, 2}) =>
         /\ resp[p] = "accepted"
         /\ pc[p] \in {"scheduled", "DONE"}
         /\ did[p] = {}
         /\ target[p] = NoTarget
         /\ task_state[p] = NoRecord
         /\ repo_name[p] = <<>>
         /\ raised_in[p] = "none"
         /\ lock # p
  /\ \A s \in Slugs :
       store[s] # NoRecord =>
         \E q \in Procs : /\ req[q] # NoReq
                          /\ req[q].round \in {1, 2}
                          /\ "record" \in did[q]
                          /\ TaskSlug(q) = s

C27_Witness ==
  \E p, q \in Procs :
    /\ req[p].round = 3
    /\ resp[p] = "accepted"
    /\ pc[p] = "DONE"
    /\ req[q].round = 1
    /\ req[q].task = req[p].task
    /\ pc[q] = "DONE"
    /\ store[TaskSlug(q)] = RoundOneEntry(q)

=============================================================================
